---------------------------- MODULE Spec2Model ----------------------------
(***************************************************************************)
(* A model of the SLA path model (package sla_path_model): path            *)
(* enumeration (path_enumeration.py), CPT schedules (cpt_generator.py),    *)
(* window alignment (time_utils.py), distances and bands (geo.py) and the  *)
(* backward-chaining timing engine (timing_engine.py).                     *)
(*                                                                         *)
(* Representation.  A naive datetime is an integer number of minutes on    *)
(* the wall-clock time line, minute 0 being 00:00 of the reference         *)
(* injection date; a date is a day number (DateOf), a time of day is a     *)
(* record [hour, minute] (every instant of the model is a whole minute).   *)
(* A time zone is its UTC offset in minutes (no DST change falls in the    *)
(* modelled days).  Facilities lie on one meridian, pos being the distance *)
(* in miles from a fixed point of it, so that the great-circle distance of *)
(* two facilities is the absolute difference of their pos.  A ratio is a   *)
(* record [num, den].                                                      *)
(***************************************************************************)
EXTENDS Integers, Sequences, FiniteSets, TLC

(***************************************************************************)
(* config.py: constants and enums                                          *)
(***************************************************************************)
MINUTES_PER_HOUR == 60
MINUTES_PER_DAY == 1440
HOURS_PER_DAY == 24

HUB == "hub"
HYBRID == "hybrid"
LAUNCH == "launch"

REGION == "region"
MARKET == "market"
SORT_GROUP == "sort_group"
\* iteration order of the enum SortLevel
SortLevel == <<REGION, MARKET, SORT_GROUP>>

INDUCTION_SORT == "induction_sort"
TRANSIT == "transit"
CROSSDOCK == "crossdock"
FULL_SORT == "full_sort"
LAST_MILE_SORT == "last_mile_sort"

\* an Optional[str] / Optional[time] field that is not set
None == "none"
NoTime == [hour |-> 0 - 1, minute |-> 0]

Time(h, m) == [hour |-> h, minute |-> m]

(***************************************************************************)
(* Bounds of the model                                                     *)
(***************************************************************************)
\* max_path_touches ranges over 1..MaxTouches
MaxTouches == 5

(***************************************************************************)
(* datetime arithmetic                                                     *)
(***************************************************************************)
DateOf(dt) == dt \div MINUTES_PER_DAY
TimeOf(dt) == Time((dt % MINUTES_PER_DAY) \div MINUTES_PER_HOUR, dt % MINUTES_PER_HOUR)
\* datetime.combine(date, t)
Combine(date, t) == date * MINUTES_PER_DAY + t.hour * MINUTES_PER_HOUR + t.minute

\* time_utils.local_to_utc / utc_to_local, tz = UTC offset in minutes
local_to_utc(local_dt, tz) == local_dt - tz
utc_to_local(utc_dt, tz) == utc_dt + tz

time_to_minutes(t) == t.hour * 60 + t.minute
minutes_to_time(mins) == Time((mins % MINUTES_PER_DAY) \div 60, (mins % MINUTES_PER_DAY) % 60)

Max(a, b) == IF a >= b THEN a ELSE b

(***************************************************************************)
(* Inputs: the facility table, bands, timing parameters, explicit CPTs.    *)
(* Init draws the network from Variants and the run settings from small    *)
(* sets.                                                                   *)
(***************************************************************************)
\* facility names, in the order of the facilities table (dict order)
FacilityOrder == <<"A", "B", "C", "D", "E">>
Names == {FacilityOrder[i] : i \in 1..Len(FacilityOrder)}

Variants == {"base", "shared_parent", "no_parent", "no_lm_window"}

Fac(t, p, z, par, reg, mms, mme, lms, lme, obs, obe, n) ==
    [facility_type |-> t, pos |-> p, timezone |-> z,
     parent_hub_name |-> par, regional_sort_hub |-> reg,
     mm_sort_start_local |-> mms, mm_sort_end_local |-> mme,
     lm_sort_start_local |-> lms, lm_sort_end_local |-> lme,
     outbound_window_start_local |-> obs, outbound_window_end_local |-> obe,
     outbound_cpt_count |-> n]

\* the facilities table of a network variant
FacilityTable(v) ==
    [n \in Names |->
       CASE n = "A" -> Fac(HUB, 0, 0 - 300,
                           IF v = "shared_parent" THEN "B" ELSE None, None,
                           Time(18, 0), Time(6, 0), NoTime, NoTime,
                           Time(20, 0), Time(23, 0), 2)
         [] n = "B" -> Fac(HUB, 500, 0 - 360, None, None,
                           Time(6, 0), Time(14, 0), NoTime, NoTime,
                           Time(21, 0), Time(22, 0), 1)
         [] n = "C" -> Fac(HYBRID, 1000, 0 - 420, None, None,
                           Time(10, 0), Time(10, 30), Time(7, 0), Time(8, 0),
                           NoTime, NoTime, 0)
         [] n = "D" -> Fac(HUB, 1500, 0 - 480, None, None,
                           NoTime, NoTime, NoTime, NoTime,
                           Time(22, 0), Time(2, 0), 3)
         [] n = "E" -> Fac(LAUNCH, 2000, 0 - 480,
                           IF v = "no_parent" THEN None ELSE "B", "B",
                           NoTime, NoTime,
                           IF v = "no_lm_window" THEN NoTime ELSE Time(2, 0),
                           IF v = "no_lm_window" THEN NoTime ELSE Time(8, 0),
                           NoTime, NoTime, 0)]

\* the mileage_bands table: contiguous bands ordered by zone
MileageBands ==
    << [zone |-> 1, mileage_band_min |-> 0, mileage_band_max |-> 600,
        circuity_num |-> 6, circuity_den |-> 5, mph |-> 50],
       [zone |-> 2, mileage_band_min |-> 600, mileage_band_max |-> 1500,
        circuity_num |-> 6, circuity_den |-> 5, mph |-> 60],
       [zone |-> 3, mileage_band_min |-> 1500, mileage_band_max |-> 3000,
        circuity_num |-> 6, circuity_den |-> 5, mph |-> 60] >>

\* the timing_params table
TimingParamSets ==
    { [induction_sort_minutes |-> 60, middle_mile_crossdock_minutes |-> 60,
       middle_mile_sort_minutes |-> 180, last_mile_sort_minutes |-> 90],
      [induction_sort_minutes |-> 30, middle_mile_crossdock_minutes |-> 20,
       middle_mile_sort_minutes |-> 120, last_mile_sort_minutes |-> 45] }

\* the arc_cpts sheet: explicit CPT overrides
ArcCpts ==
    << [origin |-> "C", dest |-> "E", cpt_sequence |-> 2, cpt_local |-> Time(5, 0),
        days_of_week |-> <<>>, timezone |-> 0 - 420],
       [origin |-> "C", dest |-> "E", cpt_sequence |-> 1, cpt_local |-> Time(16, 0),
        days_of_week |-> <<"Mon", "Wed">>, timezone |-> 0 - 420] >>

\* explicit CPTs on arcs whose origin A also has a generated schedule
ArcCptsOfA ==
    << [origin |-> "A", dest |-> "E", cpt_sequence |-> 3, cpt_local |-> Time(19, 0),
        days_of_week |-> <<"Tue">>, timezone |-> 0 - 300],
       [origin |-> "A", dest |-> "B", cpt_sequence |-> 2, cpt_local |-> Time(22, 15),
        days_of_week |-> <<>>, timezone |-> 0 - 300],
       [origin |-> "A", dest |-> "E", cpt_sequence |-> 1, cpt_local |-> Time(21, 30),
        days_of_week |-> <<>>, timezone |-> 0 - 300] >>

\* the arc_cpts sheets considered
ArcCptLists == { <<>>, ArcCpts, ArcCptsOfA, ArcCpts \o ArcCptsOfA }

\* max_path_atw_factor values drawn in Init (ratios)
AtwFactors == { [num |-> 1, den |-> 1], [num |-> 3, den |-> 2] }

VARIABLES
    facilities,        \* name -> Facility
    timing_params,     \* TimingParams
    max_path_touches,  \* RunSettings.max_path_touches
    max_atw_factor,    \* RunSettings.max_path_atw_factor
    pc,                \* "start", "enumerated", "timed"
    od,                \* the OD pair being processed, <<origin, dest>>
    od_paths,          \* candidates returned by enumerate_paths_for_od for od
    od_timings         \* timings computed so far for od_paths, in order

VARIABLES
    arc_cpts,          \* the explicit CPT list given to CPTGenerator
    cpt_arc,           \* the arc asked of get_cpts_for_arc, <<origin, dest>>
    returned_cpts      \* the list get_cpts_for_arc returned for cpt_arc

\* the variables of path enumeration and timing, facilities apart
path_vars == <<timing_params, max_path_touches, max_atw_factor,
               pc, od, od_paths, od_timings>>
cpt_vars == <<arc_cpts, cpt_arc, returned_cpts>>


(***************************************************************************)
(* geo.py                                                                  *)
(***************************************************************************)
Abs(x) == IF x < 0 THEN 0 - x ELSE x

\* great-circle miles of two facilities on the meridian
haversine_miles(f1, f2) == Abs(f1.pos - f2.pos)

\* index of the band get_zone_for_distance returns, 0 for None
RECURSIVE FirstBand(_, _, _)
FirstBand(distance_miles, bands, i) ==
    IF i > Len(bands) THEN 0
    ELSE IF bands[i].mileage_band_min <= distance_miles
            /\ distance_miles <= bands[i].mileage_band_max
         THEN i
         ELSE FirstBand(distance_miles, bands, i + 1)

get_zone_for_distance(distance_miles, bands) ==
    LET i == FirstBand(distance_miles, bands, 1) IN
    IF i > 0 THEN i
    ELSE IF Len(bands) > 0 /\ distance_miles > bands[Len(bands)].mileage_band_max
         THEN Len(bands)
         ELSE 0

\* distance * circuity / mph * 60 (exact for the distances of the model)
calculate_transit_time_minutes(distance_miles, band) ==
    (distance_miles * band.circuity_num * MINUTES_PER_HOUR)
        \div (band.circuity_den * band.mph)

\* ATW factor as a ratio; 1.0 when direct_miles <= 0
calculate_atw_factor(total_path_miles, direct_miles) ==
    IF direct_miles <= 0 THEN [num |-> 1, den |-> 1]
    ELSE [num |-> total_path_miles, den |-> direct_miles]

\* r1 <= r2 for ratios with positive denominators
RatioLeq(r1, r2) == r1.num * r2.den <= r2.num * r1.den

RECURSIVE SumLegs(_, _, _)
SumLegs(path_nodes, facs, i) ==
    IF i >= Len(path_nodes) THEN 0
    ELSE haversine_miles(facs[path_nodes[i]], facs[path_nodes[i + 1]])
         + SumLegs(path_nodes, facs, i + 1)

\* total miles of calculate_path_distance
calculate_path_distance(path_nodes, facs) ==
    IF Len(path_nodes) < 2 THEN 0 ELSE SumLegs(path_nodes, facs, 1)

(***************************************************************************)
(* config.py: SortWindow and Facility methods                              *)
(***************************************************************************)
NoWindow == [start_local |-> NoTime, end_local |-> NoTime, timezone |-> 0]

SortWindow(s, e, tz) == [start_local |-> s, end_local |-> e, timezone |-> tz]

\* Facility.get_mm_sort_window
get_mm_sort_window(fac) ==
    IF fac.mm_sort_start_local # NoTime /\ fac.mm_sort_end_local # NoTime
    THEN SortWindow(fac.mm_sort_start_local, fac.mm_sort_end_local, fac.timezone)
    ELSE NoWindow

\* Facility.get_lm_sort_window
get_lm_sort_window(fac) ==
    IF fac.lm_sort_start_local # NoTime /\ fac.lm_sort_end_local # NoTime
    THEN SortWindow(fac.lm_sort_start_local, fac.lm_sort_end_local, fac.timezone)
    ELSE NoWindow

\* SortWindow.crosses_midnight: end_local < start_local
crosses_midnight(window) ==
    time_to_minutes(window.end_local) < time_to_minutes(window.start_local)

(***************************************************************************)
(* time_utils.py                                                           *)
(***************************************************************************)
is_time_in_window(check_time, window) ==
    LET check_mins == time_to_minutes(check_time)
        start_mins == time_to_minutes(window.start_local)
        end_mins == time_to_minutes(window.end_local)
    IN IF crosses_midnight(window)
       THEN check_mins >= start_mins \/ check_mins < end_mins
       ELSE start_mins <= check_mins /\ check_mins < end_mins

\* The backward aligner.  Returns [start_utc, dwell_minutes].
align_to_window_end(target_utc, window, processing_minutes_in) ==
    LET target_local == utc_to_local(target_utc, window.timezone)
        target_date == DateOf(target_local)
        target_mins == time_to_minutes(TimeOf(target_local))
        start_mins0 == target_mins - processing_minutes_in
        \* while start_mins < 0: start_mins += 1440; days_back += 1
        days_back == IF start_mins0 < 0
                     THEN (0 - start_mins0 + MINUTES_PER_DAY - 1) \div MINUTES_PER_DAY
                     ELSE 0
        start_mins == start_mins0 + days_back * MINUTES_PER_DAY
        proposed_date == target_date - days_back
        proposed_start_local == Combine(proposed_date, minutes_to_time(start_mins))
        proposed_start_time == TimeOf(proposed_start_local)
        window_end_mins == time_to_minutes(window.end_local)
        window_start_mins == time_to_minutes(window.start_local)
        window_duration == IF crosses_midnight(window)
                           THEN (MINUTES_PER_DAY - window_start_mins) + window_end_mins
                           ELSE window_end_mins - window_start_mins
        processing_minutes == IF processing_minutes_in > window_duration
                              THEN window_duration
                              ELSE processing_minutes_in
        proposed_start_mins == time_to_minutes(proposed_start_time)
        window_end_date ==
            IF crosses_midnight(window)
            THEN IF proposed_start_mins < window_end_mins
                 THEN proposed_date - 1
                 ELSE IF proposed_start_mins >= window_start_mins
                      THEN proposed_date
                      ELSE proposed_date
            ELSE IF proposed_start_mins >= window_end_mins
                 THEN proposed_date
                 ELSE proposed_date - 1
        actual_end_local0 == Combine(window_end_date, window.end_local)
        dwell0 == target_utc - local_to_utc(actual_end_local0, window.timezone)
        \* a negative dwell goes back one more day
        actual_end_local == IF dwell0 < 0 THEN actual_end_local0 - MINUTES_PER_DAY
                            ELSE actual_end_local0
        actual_start_local == actual_end_local - processing_minutes
        dwell_minutes == target_utc - local_to_utc(actual_end_local, window.timezone)
    IN IF is_time_in_window(proposed_start_time, window)
       THEN [start_utc |-> local_to_utc(proposed_start_local, window.timezone),
             dwell_minutes |-> 0]
       ELSE [start_utc |-> local_to_utc(actual_start_local, window.timezone),
             dwell_minutes |-> Max(0, dwell_minutes)]

(***************************************************************************)
(* cpt_generator.py                                                        *)
(***************************************************************************)
RECURSIVE InsertBySequence(_, _)
InsertBySequence(cpt, sorted) ==
    IF sorted = <<>> THEN <<cpt>>
    ELSE IF cpt.cpt_sequence < Head(sorted).cpt_sequence
         THEN <<cpt>> \o sorted
         ELSE <<Head(sorted)>> \o InsertBySequence(cpt, Tail(sorted))

\* list.sort(key = cpt_sequence), stable
RECURSIVE SortBySequence(_)
SortBySequence(cpts) ==
    IF cpts = <<>> THEN <<>>
    ELSE InsertBySequence(cpts[Len(cpts)], SortBySequence(SubSeq(cpts, 1, Len(cpts) - 1)))

\* CPTGenerator._explicit_cpts[(origin, dest)], <<>> when the key is absent
explicit_cpts(arc_list, origin, dest) ==
    LET Hit(c) == c.origin = origin /\ c.dest = dest
    IN SortBySequence(SelectSeq(arc_list, Hit))

\* CPTGenerator._generate_facility_cpts
generate_facility_cpts(name, facility) ==
    LET start_mins == time_to_minutes(facility.outbound_window_start_local)
        end_mins == time_to_minutes(facility.outbound_window_end_local)
        window_duration == IF end_mins <= start_mins
                           THEN (MINUTES_PER_DAY - start_mins) + end_mins
                           ELSE end_mins - start_mins
        cpt_count == facility.outbound_cpt_count
        Wrap(m) == IF m >= MINUTES_PER_DAY THEN m - MINUTES_PER_DAY ELSE m
        cpt_times == IF cpt_count = 1 THEN <<end_mins>>
                     ELSE [i \in 1..cpt_count |->
                             Wrap(start_mins + ((i - 1) * window_duration) \div (cpt_count - 1))]
    IN [seq \in 1..Len(cpt_times) |->
          [origin |-> name, dest |-> "*", cpt_sequence |-> seq,
           cpt_local |-> minutes_to_time(cpt_times[seq]),
           days_of_week |-> <<>>, timezone |-> facility.timezone]]

\* whether _generate_default_cpts stores a schedule under (name, "*")
has_generated_cpts(facility) ==
    /\ facility.facility_type \in {HUB, HYBRID}
    /\ ~ \/ facility.outbound_window_start_local = NoTime
         \/ facility.outbound_window_end_local = NoTime
         \/ facility.outbound_cpt_count < 1

\* a resolution that appends the facility schedule to the explicit entries
get_cpts_mixed(facs, arc_list, origin, dest) ==
    explicit_cpts(arc_list, origin, dest)
    \o (IF has_generated_cpts(facs[origin])
        THEN LET facility_cpts == generate_facility_cpts(origin, facs[origin])
             IN [k \in 1..Len(facility_cpts) |->
                   [facility_cpts[k] EXCEPT !.dest = dest]]
        ELSE <<>>)

\* CPTGenerator.get_cpts_for_arc
get_cpts_for_arc(facs, arc_list, origin, dest) ==
    IF explicit_cpts(arc_list, origin, dest) # <<>>
    THEN explicit_cpts(arc_list, origin, dest)
    ELSE IF has_generated_cpts(facs[origin])
         THEN LET facility_cpts == generate_facility_cpts(origin, facs[origin])
              IN [k \in 1..Len(facility_cpts) |->
                    [origin |-> facility_cpts[k].origin, dest |-> dest,
                     cpt_sequence |-> facility_cpts[k].cpt_sequence,
                     cpt_local |-> facility_cpts[k].cpt_local,
                     days_of_week |-> facility_cpts[k].days_of_week,
                     timezone |-> facility_cpts[k].timezone]]
         ELSE <<>>

(***************************************************************************)
(* path_enumeration.py                                                     *)
(***************************************************************************)
\* PathEnumerator.sorting_facilities = {**hubs, **hybrids}: the hubs in table
\* order, then the hybrids in table order
sorting_facilities(facs) ==
    LET IsHub(n) == facs[n].facility_type = HUB
        IsHybrid(n) == facs[n].facility_type = HYBRID
    IN SelectSeq(FacilityOrder, IsHub) \o SelectSeq(FacilityOrder, IsHybrid)

InPath(n, path) == \E k \in 1..Len(path) : path[k] = n

\* PathEnumerator._is_valid_path_structure
is_valid_path_structure(facs, path) ==
    LET origin == path[1]
        dest == path[Len(path)]
        parent == facs[dest].parent_hub_name
        origin_parent == facs[origin].parent_hub_name
    IN /\ Len(path) >= 2
       /\ facs[origin].facility_type \in {HUB, HYBRID}
       /\ facs[dest].facility_type \in {LAUNCH, HYBRID}
       /\ \A k \in 2..(Len(path) - 1) : facs[path[k]].facility_type \in {HUB, HYBRID}
       /\ (parent # None /\ origin # parent /\ origin_parent # parent)
             => InPath(parent, path)

\* the 1-touch loop
one_touch_paths(facs, origin, dest) ==
    LET sf == sorting_facilities(facs)
        all == [k \in 1..Len(sf) |-> <<origin, sf[k], dest>>]
        Keep(path) == /\ path[2] # origin /\ path[2] # dest
                      /\ is_valid_path_structure(facs, path)
    IN SelectSeq(all, Keep)

\* the 2-touch loops: hub1 outer, hub2 inner
two_touch_paths(facs, origin, dest) ==
    LET sf == sorting_facilities(facs)
        n == Len(sf)
        all == [k \in 1..(n * n) |->
                  <<origin, sf[((k - 1) \div n) + 1], sf[((k - 1) % n) + 1], dest>>]
        Keep(path) == /\ path[2] # origin /\ path[2] # dest
                      /\ path[3] # origin /\ path[3] # dest /\ path[3] # path[2]
                      /\ is_valid_path_structure(facs, path)
    IN SelectSeq(all, Keep)

\* the 3-touch loops: hub1 outer, hub2, hub3 inner
three_touch_paths(facs, origin, dest) ==
    LET sf == sorting_facilities(facs)
        n == Len(sf)
        all == [k \in 1..(n * n * n) |->
                  <<origin, sf[((k - 1) \div (n * n)) + 1],
                    sf[(((k - 1) \div n) % n) + 1], sf[((k - 1) % n) + 1], dest>>]
        Keep(path) == /\ path[2] # origin /\ path[2] # dest
                      /\ path[3] # origin /\ path[3] # dest /\ path[3] # path[2]
                      /\ path[4] # origin /\ path[4] # dest
                      /\ path[4] # path[2] /\ path[4] # path[3]
                      /\ is_valid_path_structure(facs, path)
    IN SelectSeq(all, Keep)

\* an enumeration whose touch thresholds are one lower
enumerate_one_touch_early(facs, touches, origin, dest) ==
    <<(<<origin, dest>>)>>
    \o (IF touches >= 1 THEN one_touch_paths(facs, origin, dest) ELSE <<>>)
    \o (IF touches >= 2 THEN two_touch_paths(facs, origin, dest) ELSE <<>>)
    \o (IF touches >= 3 THEN three_touch_paths(facs, origin, dest) ELSE <<>>)

\* PathEnumerator._enumerate_raw_paths
enumerate_raw_paths(facs, touches, origin, dest) ==
    <<(<<origin, dest>>)>>
    \o (IF touches >= 2 THEN one_touch_paths(facs, origin, dest) ELSE <<>>)
    \o (IF touches >= 3 THEN two_touch_paths(facs, origin, dest) ELSE <<>>)
    \o (IF touches >= 4 THEN three_touch_paths(facs, origin, dest) ELSE <<>>)

\* PathEnumerator._is_sort_level_valid
is_sort_level_valid(path_nodes, sort_level) == TRUE

path_type_of(num_touches) ==
    CASE num_touches = 1 -> "direct"
      [] num_touches = 2 -> "1_touch"
      [] num_touches = 3 -> "2_touch"
      [] OTHER -> "3_touch"

\* PathEnumerator._expand_path_to_candidates
expand_path_to_candidates(facs, path_nodes, origin, dest, direct_miles) ==
    LET total_miles == calculate_path_distance(path_nodes, facs)
        atw_factor == calculate_atw_factor(total_miles, direct_miles)
        Valid(sort_level) == is_sort_level_valid(path_nodes, sort_level)
        levels == SelectSeq(SortLevel, Valid)
    IN [k \in 1..Len(levels) |->
          [origin |-> origin, dest |-> dest, path_nodes |-> path_nodes,
           path_type |-> path_type_of(Len(path_nodes) - 1),
           sort_level |-> levels[k],
           total_path_miles |-> total_miles, direct_miles |-> direct_miles,
           atw_factor |-> atw_factor]]

RECURSIVE ExpandAll(_, _, _, _, _, _)
ExpandAll(facs, raw_paths, i, origin, dest, direct_miles) ==
    IF i > Len(raw_paths) THEN <<>>
    ELSE expand_path_to_candidates(facs, raw_paths[i], origin, dest, direct_miles)
         \o ExpandAll(facs, raw_paths, i + 1, origin, dest, direct_miles)

\* every expanded variant, before the ATW filter
all_candidates(facs, touches, origin, dest) ==
    ExpandAll(facs, enumerate_raw_paths(facs, touches, origin, dest), 1, origin, dest,
              haversine_miles(facs[origin], facs[dest]))

\* a filter that also drops the candidates on the limit itself
atw_below(c, max_atw) ==
    c.atw_factor.num * max_atw.den < max_atw.num * c.atw_factor.den

\* the ATW filter of enumerate_paths_for_od
atw_ok(c, max_atw) == RatioLeq(c.atw_factor, max_atw)

\* PathEnumerator.enumerate_paths_for_od
enumerate_paths_for_od(facs, touches, max_atw, origin, dest) ==
    LET Keep(c) == atw_ok(c, max_atw)
    IN SelectSeq(all_candidates(facs, touches, origin, dest), Keep)

(***************************************************************************)
(* timing_engine.py                                                        *)
(***************************************************************************)
\* TimingEngine.reference_date: the date of RunSettings.reference_injection_date
reference_date == 0

\* RunSettings.reference_injection_time as io_loader.load_run_settings sets it
\* when the run_settings sheet gives none
reference_injection_time == Time(18, 0)

\* hours as the ratio minutes / 60
Hours(minutes) == [num |-> minutes, den |-> MINUTES_PER_HOUR]

PathStep(type, from, to, dist, start, end, duration, window_dwell, cpt_dwell) ==
    [step_sequence |-> 0, step_type |-> type,
     from_facility |-> from, to_facility |-> to, distance_miles |-> dist,
     start_utc |-> start, end_utc |-> end, duration_minutes |-> duration,
     sort_window_dwell_minutes |-> window_dwell, cpt_dwell_minutes |-> cpt_dwell,
     total_dwell_minutes |-> window_dwell + cpt_dwell]

\* TimingEngine._get_delivery_deadline_utc
get_delivery_deadline_utc(dest_fac) ==
    LET deadline_local == IF dest_fac.lm_sort_end_local = NoTime
                          THEN Combine(reference_date, Time(23, 59))
                          ELSE Combine(reference_date, dest_fac.lm_sort_end_local)
    IN local_to_utc(deadline_local, dest_fac.timezone)

\* the UTC instant of a CPT on reference_date + day_offset
cpt_utc_on(cpt, day_offset) ==
    local_to_utc(Combine(reference_date + day_offset, cpt.cpt_local), cpt.timezone)

SetMax(S) == CHOOSE x \in S : \A y \in S : y <= x

\* the fallback loop: day_offset in [-3, -4, -5], then the CPTs in list order;
\* the first occurrence at or before required_by_utc, [found |-> FALSE] if none
RECURSIVE FallbackCpt(_, _, _, _)
FallbackCpt(required_by_utc, cpts, day_offset, k) ==
    IF day_offset < 0 - 5 THEN [found |-> FALSE, cpt_utc |-> 0]
    ELSE IF k > Len(cpts) THEN FallbackCpt(required_by_utc, cpts, day_offset - 1, 1)
    ELSE IF cpt_utc_on(cpts[k], day_offset) <= required_by_utc
         THEN [found |-> TRUE, cpt_utc |-> cpt_utc_on(cpts[k], day_offset)]
         ELSE FallbackCpt(required_by_utc, cpts, day_offset, k + 1)

\* TimingEngine._find_latest_cpt.  Returns [departure_utc, dwell_minutes].
find_latest_cpt(required_by_utc, cpts) ==
    LET cpt_datetimes == {cpt_utc_on(cpts[k], day_offset) :
                            k \in 1..Len(cpts), day_offset \in {0, 0 - 1, 0 - 2}}
        valid_cpts == {c \in cpt_datetimes : c <= required_by_utc}
        fallback == FallbackCpt(required_by_utc, cpts, 0 - 3, 1)
    IN IF Len(cpts) = 0
       THEN [departure_utc |-> required_by_utc, dwell_minutes |-> 0]
       ELSE IF valid_cpts # {}
       THEN [departure_utc |-> SetMax(valid_cpts),
             dwell_minutes |-> Max(0, required_by_utc - SetMax(valid_cpts))]
       ELSE IF fallback.found
       THEN [departure_utc |-> fallback.cpt_utc,
             dwell_minutes |-> Max(0, required_by_utc - fallback.cpt_utc)]
       ELSE [departure_utc |-> required_by_utc, dwell_minutes |-> 0]

\* TimingEngine._calculate_intermediate_processing
calculate_intermediate_processing(tp, name, facility, sort_level, must_complete_by_utc) ==
    LET processing_minutes == IF sort_level = REGION
                              THEN tp.middle_mile_crossdock_minutes
                              ELSE tp.middle_mile_sort_minutes
        step_type == IF sort_level = REGION THEN CROSSDOCK ELSE FULL_SORT
        mm_window == get_mm_sort_window(facility)
        aligned == IF mm_window # NoWindow
                   THEN align_to_window_end(must_complete_by_utc, mm_window, processing_minutes)
                   ELSE [start_utc |-> must_complete_by_utc - processing_minutes,
                         dwell_minutes |-> 0]
    IN PathStep(step_type, name, name, 0, aligned.start_utc, must_complete_by_utc,
                processing_minutes, aligned.dwell_minutes, 0)

\* transit minutes of an arc of the given length
transit_minutes_for(distance) ==
    LET band == get_zone_for_distance(distance, MileageBands)
    IN IF band > 0
       THEN calculate_transit_time_minutes(distance, MileageBands[band])
       ELSE (distance * MINUTES_PER_HOUR) \div 50

\* The transit step of the arc from_node -> to_node that must arrive by
\* arrive_by_utc: its start_utc is the CPT departure _find_latest_cpt returns
transit_step_for(facs, from_node, to_node, arrive_by_utc) ==
    LET distance == haversine_miles(facs[from_node], facs[to_node])
        transit_minutes == transit_minutes_for(distance)
        found == find_latest_cpt(arrive_by_utc - transit_minutes,
                                 get_cpts_for_arc(facs, ArcCpts, from_node, to_node))
    IN PathStep(TRANSIT, from_node, to_node, distance,
                found.departure_utc, found.departure_utc + transit_minutes,
                transit_minutes, 0, found.dwell_minutes)

\* steps.append(transit_step); steps.append(processing_step) at an intermediate
append_arc_and_processing(acc, transit_step, processing_step) ==
    [steps |-> acc.steps \o <<transit_step, processing_step>>,
     current_time_utc |-> processing_step.start_utc,
     total_sort_window_dwell |-> acc.total_sort_window_dwell
                                 + processing_step.sort_window_dwell_minutes,
     total_cpt_dwell |-> acc.total_cpt_dwell + transit_step.cpt_dwell_minutes]

\* steps.append(transit_step) on the arc that leaves the origin
append_arc(acc, transit_step) ==
    [steps |-> acc.steps \o <<transit_step>>,
     current_time_utc |-> transit_step.start_utc,
     total_sort_window_dwell |-> acc.total_sort_window_dwell,
     total_cpt_dwell |-> acc.total_cpt_dwell + transit_step.cpt_dwell_minutes]

\* one pass of the loop body for index i (0-based i of the source): the arc
\* path_nodes[i-1] -> path_nodes[i], then the processing at its tail if i > 1
chain_arc(facs, tp, path, i, acc, transit_step) ==
    IF i > 1
    THEN append_arc_and_processing(acc, transit_step,
             calculate_intermediate_processing(tp, path.path_nodes[i],
                 facs[path.path_nodes[i]], path.sort_level, transit_step.start_utc))
    ELSE append_arc(acc, transit_step)

\* The loop "for i in range(len(path_nodes) - 1, 0, -1)" of calculate_path_timing.
\* acc = [steps, current_time_utc, total_sort_window_dwell, total_cpt_dwell].
RECURSIVE ChainBackward(_, _, _, _, _)
ChainBackward(facs, tp, path, i, acc) ==
    IF i < 1 THEN acc
    ELSE ChainBackward(facs, tp, path, i - 1,
             chain_arc(facs, tp, path, i, acc,
                 transit_step_for(facs, path.path_nodes[i], path.path_nodes[i + 1],
                                  acc.current_time_utc)))

\* steps.reverse() and the renumbering of step_sequence
reverse_and_number(steps) ==
    [k \in 1..Len(steps) |-> [steps[Len(steps) + 1 - k] EXCEPT !.step_sequence = k]]

\* "Step 1: Last mile sort at destination": the accumulator before the loop
last_mile_stage(dest, dest_fac, tp, delivery_deadline_utc, lm) ==
    IF /\ dest_fac.facility_type \in {LAUNCH, HYBRID}
       /\ get_lm_sort_window(dest_fac) # NoWindow
    THEN [steps |-> << PathStep(LAST_MILE_SORT, dest, dest, 0,
                                lm.start_utc, delivery_deadline_utc,
                                tp.last_mile_sort_minutes, lm.dwell_minutes, 0) >>,
          current_time_utc |-> lm.start_utc,
          total_sort_window_dwell |-> lm.dwell_minutes, total_cpt_dwell |-> 0]
    ELSE [steps |-> <<>>, current_time_utc |-> delivery_deadline_utc,
          total_sort_window_dwell |-> 0, total_cpt_dwell |-> 0]

\* "Induction sort at origin": (induction_start_utc, window_dwell)
induction_alignment(origin_fac, tp, current_time_utc) ==
    IF get_mm_sort_window(origin_fac) # NoWindow
    THEN align_to_window_end(current_time_utc, get_mm_sort_window(origin_fac),
                             tp.induction_sort_minutes)
    ELSE [start_utc |-> current_time_utc - tp.induction_sort_minutes,
          dwell_minutes |-> 0]

\* the induction step, the totals and the PathTimingResult
timing_result(path, tp, delivery_deadline_utc, acc, induction) ==
    [path |-> path,
     tit_hours |-> Hours(delivery_deadline_utc - induction.start_utc),
     sort_window_dwell_hours |-> Hours(acc.total_sort_window_dwell + induction.dwell_minutes),
     cpt_dwell_hours |-> Hours(acc.total_cpt_dwell),
     total_dwell_hours |-> Hours((acc.total_sort_window_dwell + induction.dwell_minutes)
                                 + acc.total_cpt_dwell),
     required_injection_utc |-> induction.start_utc,
     delivery_datetime_utc |-> delivery_deadline_utc,
     sla_days |-> 0, sla_buffer_days |-> 0, sla_target_hours |-> 0,
     sla_met |-> FALSE, sla_slack_hours |-> 0, priority_weight |-> 1,
     steps |-> reverse_and_number(acc.steps \o
                 << PathStep(INDUCTION_SORT, path.origin, path.origin, 0,
                             induction.start_utc, acc.current_time_utc,
                             tp.induction_sort_minutes, induction.dwell_minutes, 0) >>)]

\* the part of calculate_path_timing after the loop
finish_path_timing(facs, tp, path, delivery_deadline_utc, acc) ==
    timing_result(path, tp, delivery_deadline_utc, acc,
                  induction_alignment(facs[path.origin], tp, acc.current_time_utc))

\* TimingEngine.calculate_path_timing
calculate_path_timing(facs, tp, path) ==
    finish_path_timing(facs, tp, path, get_delivery_deadline_utc(facs[path.dest]),
        ChainBackward(facs, tp, path, Len(path.path_nodes) - 1,
            last_mile_stage(path.dest, facs[path.dest], tp,
                get_delivery_deadline_utc(facs[path.dest]),
                align_to_window_end(get_delivery_deadline_utc(facs[path.dest]),
                                    get_lm_sort_window(facs[path.dest]),
                                    tp.last_mile_sort_minutes))))

(***************************************************************************)
(* feasibility.py                                                          *)
(***************************************************************************)
\* the value None where a zone number is expected
NoZone == 0 - 1

\* ServiceCommitment; zone is NoZone or a zone number, sla_buffer_days a ratio
ServiceCommitment(origin, dest, zone, sla_days, sla_buffer_days, priority_weight) ==
    [origin |-> origin, dest |-> dest, zone |-> zone, sla_days |-> sla_days,
     sla_buffer_days |-> sla_buffer_days, priority_weight |-> priority_weight]

\* the value None where a ServiceCommitment is expected
NoCommitment == ServiceCommitment(None, None, NoZone, 0, [num |-> 0, den |-> 1], 0)

\* float('inf')
Infinity == [num |-> 1, den |-> 0]

\* dict assignment in list order: the last entry of scs with the key wins
LastWhere(scs, Hit(_)) ==
    LET hits == {k \in 1..Len(scs) : Hit(scs[k])}
    IN IF hits = {} THEN NoCommitment
       ELSE scs[CHOOSE k \in hits : \A j \in hits : j <= k]

\* FeasibilityChecker._build_commitment_index: the five buckets
InOdBucket(sc) == sc.origin # "*" /\ sc.dest # "*"
InOriginBucket(sc) == sc.origin # "*" /\ sc.dest = "*"
InDestBucket(sc) == sc.origin = "*" /\ sc.dest # "*"
InZoneBucket(sc) == sc.origin = "*" /\ sc.dest = "*" /\ sc.zone # NoZone
InDefaultBucket(sc) == sc.origin = "*" /\ sc.dest = "*" /\ sc.zone = NoZone

od_commitments(scs, origin, dest) ==
    LET Hit(sc) == InOdBucket(sc) /\ sc.origin = origin /\ sc.dest = dest
    IN LastWhere(scs, Hit)
origin_commitments(scs, origin) ==
    LET Hit(sc) == InOriginBucket(sc) /\ sc.origin = origin
    IN LastWhere(scs, Hit)
dest_commitments(scs, dest) ==
    LET Hit(sc) == InDestBucket(sc) /\ sc.dest = dest
    IN LastWhere(scs, Hit)
zone_commitments(scs, zone) ==
    LET Hit(sc) == InZoneBucket(sc) /\ sc.zone = zone
    IN LastWhere(scs, Hit)
default_commitment(scs) == LastWhere(scs, InDefaultBucket)

\* a lookup that tries the zone bucket before the destination bucket
get_commitment_zone_first(scs, origin, dest, zone) ==
    IF od_commitments(scs, origin, dest) # NoCommitment
    THEN od_commitments(scs, origin, dest)
    ELSE IF origin_commitments(scs, origin) # NoCommitment
    THEN origin_commitments(scs, origin)
    ELSE IF zone_commitments(scs, zone) # NoCommitment
    THEN zone_commitments(scs, zone)
    ELSE IF dest_commitments(scs, dest) # NoCommitment
    THEN dest_commitments(scs, dest)
    ELSE default_commitment(scs)

\* FeasibilityChecker.get_commitment
get_commitment(scs, origin, dest, zone) ==
    IF od_commitments(scs, origin, dest) # NoCommitment
    THEN od_commitments(scs, origin, dest)
    ELSE IF origin_commitments(scs, origin) # NoCommitment
    THEN origin_commitments(scs, origin)
    ELSE IF dest_commitments(scs, dest) # NoCommitment
    THEN dest_commitments(scs, dest)
    ELSE IF zone_commitments(scs, zone) # NoCommitment
    THEN zone_commitments(scs, zone)
    ELSE default_commitment(scs)

\* (sla_days + sla_buffer_days) * HOURS_PER_DAY, a ratio of hours
target_hours(commitment) ==
    [num |-> (commitment.sla_days * commitment.sla_buffer_days.den
                + commitment.sla_buffer_days.num) * HOURS_PER_DAY,
     den |-> commitment.sla_buffer_days.den]

\* r1 - r2 on ratios
RatioMinus(r1, r2) ==
    [num |-> r1.num * r2.den - r2.num * r1.den, den |-> r1.den * r2.den]

\* an annotation that needs tit_hours strictly below the target
check_feasibility_strict(scs, timing, zone) ==
    LET commitment == get_commitment(scs, timing.path.origin, timing.path.dest, zone)
    IN IF commitment = NoCommitment
       THEN [timing EXCEPT !.sla_target_hours = Infinity, !.sla_met = TRUE,
                           !.sla_slack_hours = Infinity]
       ELSE [timing EXCEPT !.sla_days = commitment.sla_days,
                           !.sla_buffer_days = commitment.sla_buffer_days,
                           !.sla_target_hours = target_hours(commitment),
                           !.sla_met = ~RatioLeq(target_hours(commitment), timing.tit_hours),
                           !.sla_slack_hours =
                               RatioMinus(target_hours(commitment), timing.tit_hours),
                           !.priority_weight = commitment.priority_weight]

\* an annotation that folds the priority weight already on the timing into
\* the new one
check_feasibility_folding(scs, timing, zone) ==
    LET commitment == get_commitment(scs, timing.path.origin, timing.path.dest, zone)
    IN IF commitment = NoCommitment
       THEN [timing EXCEPT !.sla_target_hours = Infinity, !.sla_met = TRUE,
                           !.sla_slack_hours = Infinity]
       ELSE [timing EXCEPT !.sla_days = commitment.sla_days,
                           !.sla_buffer_days = commitment.sla_buffer_days,
                           !.sla_target_hours = target_hours(commitment),
                           !.sla_met = RatioLeq(timing.tit_hours, target_hours(commitment)),
                           !.sla_slack_hours =
                               RatioMinus(target_hours(commitment), timing.tit_hours),
                           !.priority_weight =
                               timing.priority_weight * commitment.priority_weight]

\* an annotation that returns a new result holding the path, the TIT and the
\* SLA fields, without the trace and the dwell totals of the timing
check_feasibility_fresh(scs, timing, zone) ==
    LET commitment == get_commitment(scs, timing.path.origin, timing.path.dest, zone)
        fresh == [timing EXCEPT !.steps = <<>>,
                                !.sort_window_dwell_hours = Hours(0),
                                !.cpt_dwell_hours = Hours(0),
                                !.total_dwell_hours = Hours(0)]
    IN IF commitment = NoCommitment
       THEN [fresh EXCEPT !.sla_target_hours = Infinity, !.sla_met = TRUE,
                          !.sla_slack_hours = Infinity]
       ELSE [fresh EXCEPT !.sla_days = commitment.sla_days,
                          !.sla_buffer_days = commitment.sla_buffer_days,
                          !.sla_target_hours = target_hours(commitment),
                          !.sla_met = RatioLeq(timing.tit_hours, target_hours(commitment)),
                          !.sla_slack_hours =
                              RatioMinus(target_hours(commitment), timing.tit_hours),
                          !.priority_weight = commitment.priority_weight]

\* FeasibilityChecker.check_feasibility: the timing with its SLA fields set
check_feasibility(scs, timing, zone) ==
    LET commitment == get_commitment(scs, timing.path.origin, timing.path.dest, zone)
    IN IF commitment = NoCommitment
       THEN [timing EXCEPT !.sla_days = 0,
                           !.sla_buffer_days = [num |-> 0, den |-> 1],
                           !.sla_target_hours = Infinity,
                           !.sla_met = TRUE,
                           !.sla_slack_hours = Infinity,
                           !.priority_weight = 1]
       ELSE [timing EXCEPT !.sla_days = commitment.sla_days,
                           !.sla_buffer_days = commitment.sla_buffer_days,
                           !.sla_target_hours = target_hours(commitment),
                           !.sla_met = RatioLeq(timing.tit_hours, target_hours(commitment)),
                           !.sla_slack_hours =
                               RatioMinus(target_hours(commitment), timing.tit_hours),
                           !.priority_weight = commitment.priority_weight]

\* od_zones.get((origin, dest), 1) of check_all_feasibility
od_zone(demands, origin, dest) ==
    LET hits == {k \in 1..Len(demands) :
                   demands[k].origin = origin /\ demands[k].dest = dest}
    IN IF hits = {} THEN 1
       ELSE demands[CHOOSE k \in hits : \A j \in hits : j <= k].zone

\* total_paths of check_all_feasibility
RECURSIVE total_paths(_)
total_paths(table) ==
    IF table = <<>> THEN 0 ELSE Len(Head(table).timings) + total_paths(Tail(table))

\* the loops of check_all_feasibility over a table of (od, timings) entries
annotate_all(scs, demands, table) ==
    [e \in 1..Len(table) |->
       [od |-> table[e].od,
        timings |-> [k \in 1..Len(table[e].timings) |->
                       check_feasibility(scs, table[e].timings[k],
                                         od_zone(demands, table[e].od[1], table[e].od[2]))]]]

(***************************************************************************)
(* Inputs of the feasibility stage                                         *)
(***************************************************************************)
NoBuffer == [num |-> 0, den |-> 1]
HalfDay == [num |-> 1, den |-> 2]

ScOd == ServiceCommitment("A", "E", NoZone, 2, NoBuffer, 3)
ScOdZone == ServiceCommitment("A", "E", 3, 1, NoBuffer, 2)
ScOrigin == ServiceCommitment("A", "*", NoZone, 3, NoBuffer, 1)
ScDest == ServiceCommitment("*", "E", NoZone, 4, HalfDay, 1)
ScZone1 == ServiceCommitment("*", "*", 1, 1, NoBuffer, 1)
ScZone3 == ServiceCommitment("*", "*", 3, 3, NoBuffer, 2)
ScDefault == ServiceCommitment("*", "*", NoZone, 5, NoBuffer, 1)

\* the service_commitments sheets considered
CommitmentLists ==
    { <<>>, <<ScDefault>>, <<ScZone3, ScDefault>>, <<ScZone1, ScZone3>>,
      <<ScDefault, ScZone3, ScDest, ScOrigin, ScOd>>, <<ScOd, ScOdZone>>,
      <<ScDest, ScOrigin>>, <<ScZone1, ScDest>> }

\* a PathTimingResult as the timing engine leaves it, with the fields the
\* feasibility stage reads and writes
UncheckedTiming(origin, dest, tit_minutes) ==
    [path |-> [origin |-> origin, dest |-> dest],
     tit_hours |-> Hours(tit_minutes),
     sla_days |-> 0, sla_buffer_days |-> NoBuffer, sla_target_hours |-> NoBuffer,
     sla_met |-> FALSE, sla_slack_hours |-> NoBuffer, priority_weight |-> 1]

\* the od_timings dicts considered, as lists of (od, timings) entries
TimingTables ==
    { <<>>,
      << [od |-> <<"A", "E">>, timings |-> <<>>] >>,
      << [od |-> <<"A", "E">>,
          timings |-> << UncheckedTiming("A", "E", 2880), UncheckedTiming("A", "E", 2881),
                         UncheckedTiming("A", "E", 1440) >>],
         [od |-> <<"B", "A">>, timings |-> <<>>],
         [od |-> <<"B", "E">>,
          timings |-> << UncheckedTiming("B", "E", 6480), UncheckedTiming("B", "E", 6481),
                         UncheckedTiming("B", "E", 4320) >>] >>,
      << [od |-> <<"B", "A">>,
          timings |-> << UncheckedTiming("B", "A", 1440), UncheckedTiming("B", "A", 7201) >>] >> }

\* the od_demands lists considered (the fields check_all_feasibility reads)
DemandLists ==
    { <<>>,
      << [origin |-> "A", dest |-> "E", zone |-> 3],
         [origin |-> "B", dest |-> "E", zone |-> 1] >>,
      << [origin |-> "B", dest |-> "A", zone |-> 3],
         [origin |-> "B", dest |-> "E", zone |-> 1],
         [origin |-> "B", dest |-> "E", zone |-> 3] >> }

Zones == {0, 1, 3}
MaxRuns == 2

VARIABLES
    service_commitments,   \* the list given to FeasibilityChecker
    od_demands,            \* the ODDemand list given to check_all_feasibility
    checked_timings,       \* the od_timings dict, annotated in place
    feas_pc,               \* "start", "looked_up", "returned", "raised"
    feas_runs,             \* completed calls of check_all_feasibility
    commitment_query,      \* <<origin, dest, zone>> asked of get_commitment
    commitment             \* what get_commitment returned

feas_vars == <<service_commitments, od_demands, checked_timings, feas_pc, feas_runs,
               commitment_query, commitment>>

\* the feasibility variables while the stage is not run
FeasIdle ==
    /\ service_commitments = <<>>
    /\ od_demands = <<>>
    /\ checked_timings = <<>>
    /\ feas_pc = "start"
    /\ feas_runs = 0
    /\ commitment_query = <<None, None, NoZone>>
    /\ commitment = NoCommitment

\* the CPT variables while no arc is asked
CptIdle ==
    /\ arc_cpts = ArcCpts
    /\ cpt_arc = <<None, None>>
    /\ returned_cpts = <<>>

(***************************************************************************)
(* Inputs of get_zone_for_distance                                         *)
(***************************************************************************)
\* the mileage_bands sheets considered: none, the three bands, the first two,
\* the first one
BandLists == { <<>>, MileageBands, SubSeq(MileageBands, 1, 2), SubSeq(MileageBands, 1, 1) }

\* the distances asked: every band bound, its neighbours and values between
Distances ==
    {100 * k : k \in 0..40} \cup {1, 599, 601, 1499, 1501, 2999, 3001}

VARIABLES
    mileage_bands,     \* the band list given to get_zone_for_distance
    asked_miles,       \* the distance asked, NoMiles before the call
    zone_band          \* index of the band returned, 0 for None

NoMiles == 0 - 1
geo_vars == <<mileage_bands, asked_miles, zone_band>>

\* the band variables while get_zone_for_distance is not asked
GeoIdle ==
    /\ mileage_bands = MileageBands
    /\ asked_miles = NoMiles
    /\ zone_band = 0

(***************************************************************************)
(* demand_builder.py.  Shares are counted in tenths and volumes in         *)
(* thousandths of a package, so every product of the builder is exact.     *)
(***************************************************************************)
\* config.FlowType: the enumeration has these two members and no ZONE_SKIP
DIRECT_INJECTION == "direct_injection"
MIDDLE_MILE == "middle_mile"

ODDemand(scenario_id, origin, dest, pkgs_day, zone, flow_type, day_type) ==
    [scenario_id |-> scenario_id, origin |-> origin, dest |-> dest,
     pkgs_day |-> pkgs_day, zone |-> zone, flow_type |-> flow_type,
     day_type |-> day_type]

\* the 0.01 packages below which a record is dropped, in thousandths
MinPkgs == 10

\* DemandBuilder._calculate_zone
calculate_zone(facs, bands, origin, dest) ==
    LET i == get_zone_for_distance(haversine_miles(facs[origin], facs[dest]), bands)
    IN IF i > 0 THEN bands[i].zone
       ELSE IF Len(bands) > 0 THEN bands[Len(bands)].zone ELSE 0 - 1

\* _build_od_matrix, 1: the direct injection loop over dest_shares from entry k
RECURSIVE direct_injection_demands(_, _, _, _, _, _)
direct_injection_demands(facs, scenario_id, params, day_type, shares, k) ==
    IF k > Len(shares) THEN <<>>
    ELSE LET dest == shares[k].name
             di_pkgs == params.daily_pkgs * params.di_share * shares[k].share * 10
         IN (IF di_pkgs < MinPkgs \/ dest \notin DOMAIN facs THEN <<>>
             ELSE << ODDemand(scenario_id, dest, dest, di_pkgs, 0,
                              DIRECT_INJECTION, day_type) >>)
            \o direct_injection_demands(facs, scenario_id, params, day_type, shares, k + 1)

\* _build_od_matrix, 2: the zone skip loop reaches the construction of a record
\* for some destination; FlowType.ZONE_SKIP is then an AttributeError
zone_skip_raises(facs, params, shares) ==
    /\ params.daily_pkgs * params.zs_share > 0
    /\ \E k \in 1..Len(shares) :
          LET dest == shares[k].name IN
          /\ dest \in DOMAIN facs
          /\ facs[dest].regional_sort_hub # None
          /\ facs[dest].regional_sort_hub \in DOMAIN facs
          /\ params.daily_pkgs * params.zs_share * shares[k].share * 10 >= MinPkgs

\* _build_od_matrix, 3: the inner loop of middle mile for one injection origin
RECURSIVE middle_mile_for_origin(_, _, _, _, _, _, _, _, _)
middle_mile_for_origin(facs, bands, scenario_id, params, day_type, origin, inj_share, shares, k) ==
    IF k > Len(shares) THEN <<>>
    ELSE LET dest == shares[k].name
             od_pkgs == params.daily_pkgs * params.mm_share * inj_share * shares[k].share
             skipped == \/ od_pkgs < MinPkgs
                        \/ dest \notin DOMAIN facs
                        \/ (origin = dest /\ facs[origin].facility_type # HYBRID)
         IN (IF skipped THEN <<>>
             ELSE << ODDemand(scenario_id, origin, dest, od_pkgs,
                              calculate_zone(facs, bands, origin, dest),
                              MIDDLE_MILE, day_type) >>)
            \o middle_mile_for_origin(facs, bands, scenario_id, params, day_type,
                                      origin, inj_share, shares, k + 1)

\* _build_od_matrix, 3: the outer loop over injection_shares from entry j
RECURSIVE middle_mile_demands(_, _, _, _, _, _, _, _)
middle_mile_demands(facs, bands, scenario_id, params, day_type, inj, shares, j) ==
    IF j > Len(inj) THEN <<>>
    ELSE (IF inj[j].share = 0 \/ inj[j].name \notin DOMAIN facs THEN <<>>
          ELSE middle_mile_for_origin(facs, bands, scenario_id, params, day_type,
                                      inj[j].name, inj[j].share, shares, 1))
         \o middle_mile_demands(facs, bands, scenario_id, params, day_type, inj,
                                shares, j + 1)

\* DemandBuilder._build_od_matrix when the zone skip loop builds no record
build_od_matrix(facs, bands, scenario_id, params, day_type, inj, shares) ==
    (IF params.daily_pkgs * params.di_share > 0
     THEN direct_injection_demands(facs, scenario_id, params, day_type, shares, 1)
     ELSE <<>>)
    \o (IF params.daily_pkgs * params.mm_share > 0
        THEN middle_mile_demands(facs, bands, scenario_id, params, day_type, inj, shares, 1)
        ELSE <<>>)

(***************************************************************************)
(* Inputs of the demand builder                                            *)
(***************************************************************************)
Share(name, share) == [name |-> name, share |-> share]

\* the facilities tables given to the builder: in the second the hybrid C is
\* its own regional sort hub
DemandFacilityTables ==
    { FacilityTable("base"),
      [FacilityTable("base") EXCEPT !["C"].regional_sort_hub = "C"] }

\* a mileage_bands sheet whose zones start from 0
ZeroBasedBands ==
    << [zone |-> 0, mileage_band_min |-> 0, mileage_band_max |-> 150,
        circuity_num |-> 6, circuity_den |-> 5, mph |-> 50],
       [zone |-> 1, mileage_band_min |-> 150, mileage_band_max |-> 600,
        circuity_num |-> 6, circuity_den |-> 5, mph |-> 50],
       [zone |-> 2, mileage_band_min |-> 600, mileage_band_max |-> 3000,
        circuity_num |-> 6, circuity_den |-> 5, mph |-> 60] >>

DemandBandLists == { MileageBands, ZeroBasedBands, <<>> }

\* dest_shares by facility_name_assigned, in tenths; Z is not a facility
DestShareLists ==
    { <<>>, << Share("C", 5), Share("E", 5) >>, << Share("C", 10) >>,
      << Share("D", 3), Share("E", 5), Share("Z", 2) >> }

\* injection_shares, in tenths
InjectionShareLists ==
    { << Share("A", 5), Share("C", 5) >>, << Share("C", 10) >>,
      << Share("A", 9), Share("D", 1), Share("C", 0) >> }

\* the rows _get_demand_params accepts: the three shares sum to 1
DemandParams ==
    { [daily_pkgs |-> d, di_share |-> di, zs_share |-> zs, mm_share |-> 10 - di - zs] :
        d \in {1, 1000}, di \in {0, 2, 5}, zs \in {0, 3} }

VARIABLES
    demand_params,       \* params of the scenario
    dest_shares,         \* DemandBuilder.dest_shares
    injection_shares,    \* DemandBuilder.injection_shares
    scenario_demands,    \* what _build_od_matrix returned
    demand_pc            \* "start", "built", "returned", "raised"

demand_vars == <<demand_params, dest_shares, injection_shares, scenario_demands,
                 demand_pc>>

\* the demand variables while the builder is not run
DemandIdle ==
    /\ demand_params = [daily_pkgs |-> 0, di_share |-> 0, zs_share |-> 0, mm_share |-> 10]
    /\ dest_shares = <<>>
    /\ injection_shares = <<>>
    /\ scenario_demands = <<>>
    /\ demand_pc = "start"

(***************************************************************************)
(* reporting.py                                                            *)
(***************************************************************************)
RatioPlus(r1, r2) ==
    [num |-> r1.num * r2.den + r2.num * r1.den, den |-> r1.den * r2.den]

\* _path_ranking_key(t1) < _path_ranking_key(t2), as tuples compare
ranking_key_less(t1, t2) ==
    LET touches1 == Len(t1.path.path_nodes) - 1
        touches2 == Len(t2.path.path_nodes) - 1
    IN \/ ~RatioLeq(t2.tit_hours, t1.tit_hours)
       \/ /\ RatioLeq(t1.tit_hours, t2.tit_hours) /\ RatioLeq(t2.tit_hours, t1.tit_hours)
          /\ \/ touches1 < touches2
             \/ /\ touches1 = touches2
                /\ t1.path.total_path_miles < t2.path.total_path_miles

\* list.sort(key=_path_ranking_key): a stable sort
RECURSIVE InsertByRank(_, _)
InsertByRank(timing, sorted) ==
    IF sorted = <<>> THEN <<timing>>
    ELSE IF ranking_key_less(timing, Head(sorted)) THEN <<timing>> \o sorted
    ELSE <<Head(sorted)>> \o InsertByRank(timing, Tail(sorted))

RECURSIVE SortByRank(_)
SortByRank(timings) ==
    IF timings = <<>> THEN <<>>
    ELSE InsertByRank(timings[Len(timings)],
                      SortByRank(SubSeq(timings, 1, Len(timings) - 1)))

\* the keys of by_sort_level, in the order the defaultdict creates them
RECURSIVE sort_levels_seen(_, _)
sort_levels_seen(timings, seen) ==
    IF timings = <<>> THEN <<>>
    ELSE LET level == Head(timings).path.sort_level IN
         (IF level \in seen THEN <<>> ELSE <<level>>)
         \o sort_levels_seen(Tail(timings), seen \cup {level})

\* level_timings[:top_n] for top_n >= 0
FirstN(level_timings, top_n) ==
    SubSeq(level_timings, 1, IF top_n < Len(level_timings) THEN top_n
                             ELSE Len(level_timings))

\* a pruning that ranks the timings of an OD together, whatever their sort level
kept_across_levels(timings, top_n) == FirstN(SortByRank(timings), top_n)

\* kept of filter_top_paths_per_sort_level for the timings of one OD
RECURSIVE KeptOfLevels(_, _, _)
KeptOfLevels(timings, top_n, levels) ==
    IF levels = <<>> THEN <<>>
    ELSE FirstN(SortByRank(SelectSeq(timings,
                                     LAMBDA t : t.path.sort_level = Head(levels))),
                top_n)
         \o KeptOfLevels(timings, top_n, Tail(levels))

kept_per_sort_level(timings, top_n) ==
    KeptOfLevels(timings, top_n, sort_levels_seen(timings, {}))

\* filter_top_paths_per_sort_level
filter_top_paths_per_sort_level(table, top_n) ==
    [e \in 1..Len(table) |->
       [od |-> table[e].od, timings |-> kept_per_sort_level(table[e].timings, top_n)]]

\* od_timings.get(key, [])
timings_of(table, origin, dest) ==
    LET hits == {e \in 1..Len(table) : table[e].od = <<origin, dest>>}
    IN IF hits = {} THEN <<>> ELSE table[CHOOSE e \in hits : TRUE].timings

\* min(timings, key=_path_ranking_key): the first of the smallest
best_of(timings) == Head(SortByRank(timings))

\* the counters of build_summary_df before the loop over scenario_demands
NoCounts ==
    [paths_evaluated |-> 0, paths_feasible |-> 0, volume_at_sla |-> 0,
     volume_missed |-> 0, tit_sum |-> [num |-> 0, den |-> 1], tit_count |-> 0]

\* a loop body that treats direct injection like any other flow
count_demand_no_direct(demand, table, acc) ==
    LET timings == timings_of(table, demand.origin, demand.dest)
        feasible_for_od == SelectSeq(timings, LAMBDA t : t.sla_met)
    IN IF feasible_for_od # <<>>
       THEN [acc EXCEPT !.paths_evaluated = @ + Len(timings),
                        !.paths_feasible = @ + Len(feasible_for_od),
                        !.volume_at_sla = @ + demand.pkgs_day,
                        !.tit_sum = RatioPlus(@, best_of(feasible_for_od).tit_hours),
                        !.tit_count = @ + 1]
       ELSE IF timings # <<>>
       THEN [acc EXCEPT !.paths_evaluated = @ + Len(timings),
                        !.volume_missed = @ + demand.pkgs_day,
                        !.tit_sum = RatioPlus(@, best_of(timings).tit_hours),
                        !.tit_count = @ + 1]
       ELSE acc

\* the body of the loop of build_summary_df over scenario_demands
count_demand(demand, table, acc) ==
    LET timings == timings_of(table, demand.origin, demand.dest)
        feasible_for_od == SelectSeq(timings, LAMBDA t : t.sla_met)
    IN IF demand.flow_type = DIRECT_INJECTION
       THEN [acc EXCEPT !.volume_at_sla = @ + demand.pkgs_day]
       ELSE IF feasible_for_od # <<>>
       THEN [acc EXCEPT !.paths_evaluated = @ + Len(timings),
                        !.paths_feasible = @ + Len(feasible_for_od),
                        !.volume_at_sla = @ + demand.pkgs_day,
                        !.tit_sum = RatioPlus(@, best_of(feasible_for_od).tit_hours),
                        !.tit_count = @ + 1]
       ELSE IF timings # <<>>
       THEN [acc EXCEPT !.paths_evaluated = @ + Len(timings),
                        !.volume_missed = @ + demand.pkgs_day,
                        !.tit_sum = RatioPlus(@, best_of(timings).tit_hours),
                        !.tit_count = @ + 1]
       ELSE acc

RECURSIVE count_demands(_, _, _)
count_demands(demands, table, acc) ==
    IF demands = <<>> THEN acc
    ELSE count_demands(Tail(demands), table, count_demand(Head(demands), table, acc))

RECURSIVE sum_pkgs(_)
sum_pkgs(demands) ==
    IF demands = <<>> THEN 0 ELSE Head(demands).pkgs_day + sum_pkgs(Tail(demands))

\* round(x, 4) of a ratio of volumes, in ten-thousandths (ties to even)
Round4(num, den) ==
    LET q == (num * 10000) \div den
        twice == 2 * ((num * 10000) % den)
    IN IF twice > den \/ (twice = den /\ q % 2 = 1) THEN q + 1 ELSE q

\* build_summary_df for one scenario: the counters when the row is appended
\* (volumes in thousandths of a package) and the two percentages of the row
summary_row(demands, table, scenario_id) ==
    LET scenario_demands_of == SelectSeq(demands, LAMBDA d : d.scenario_id = scenario_id)
        total_packages == sum_pkgs(scenario_demands_of)
        counts == count_demands(scenario_demands_of, table, NoCounts)
    IN [scenario_id |-> scenario_id,
        total_od_pairs |-> Len(scenario_demands_of),
        total_packages |-> total_packages,
        paths_evaluated |-> counts.paths_evaluated,
        paths_feasible |-> counts.paths_feasible,
        volume_at_sla |-> counts.volume_at_sla,
        volume_missed |-> counts.volume_missed,
        pct_volume_at_sla |-> IF total_packages > 0
                              THEN Round4(counts.volume_at_sla, total_packages) ELSE 0,
        pct_volume_missed |-> IF total_packages > 0
                              THEN Round4(counts.volume_missed, total_packages) ELSE 0,
        tit_sum |-> counts.tit_sum,
        tit_count |-> counts.tit_count]

\* ReportBuilder.build_summary_df: one row per scenario of od_demands
build_summary_df(demands, table) ==
    { summary_row(demands, table, demands[k].scenario_id) : k \in 1..Len(demands) }

(***************************************************************************)
(* Inputs of the reports                                                   *)
(***************************************************************************)
\* a PathTimingResult after the feasibility stage, with the fields the
\* reports read
ReportTiming(path_nodes, sort_level, total_path_miles, tit_minutes, sla_met) ==
    [path |-> [origin |-> path_nodes[1], dest |-> path_nodes[Len(path_nodes)],
               path_nodes |-> path_nodes, sort_level |-> sort_level,
               total_path_miles |-> total_path_miles],
     tit_hours |-> Hours(tit_minutes), sla_met |-> sla_met]

TimingsAE ==
    [od |-> <<"A", "E">>,
     timings |-> << ReportTiming(<<"A", "E">>, MARKET, 2000, 3000, TRUE),
                    ReportTiming(<<"A", "C", "E">>, MARKET, 2000, 2900, TRUE),
                    ReportTiming(<<"A", "B", "E">>, REGION, 2000, 2900, TRUE),
                    ReportTiming(<<"A", "B", "E">>, MARKET, 2000, 2900, TRUE),
                    ReportTiming(<<"A", "D", "B", "E">>, MARKET, 3000, 2900, TRUE),
                    ReportTiming(<<"A", "D", "E">>, MARKET, 2000, 2800, TRUE),
                    ReportTiming(<<"A", "E">>, SORT_GROUP, 2000, 4400, FALSE),
                    ReportTiming(<<"A", "B", "E">>, SORT_GROUP, 2000, 4400, FALSE),
                    ReportTiming(<<"A", "C", "E">>, SORT_GROUP, 2200, 4400, FALSE) >>]

TimingsBE ==
    [od |-> <<"B", "E">>,
     timings |-> << ReportTiming(<<"B", "D", "E">>, MARKET, 1500, 4500, FALSE),
                    ReportTiming(<<"B", "E">>, MARKET, 1500, 4400, FALSE) >>]

TimingsCC ==
    [od |-> <<"C", "C">>,
     timings |-> << ReportTiming(<<"C">>, SORT_GROUP, 0, 4400, FALSE) >>]

TimingsAC == [od |-> <<"A", "C">>, timings |-> <<>>]

\* the od_timings dicts given to build_all_reports, as lists of entries
ReportTimingTables ==
    { <<>>, <<TimingsAE>>, <<TimingsAE, TimingsBE, TimingsCC>>,
      <<TimingsBE, TimingsAC, TimingsCC>> }

\* the od_demands lists given to build_all_reports
ReportDemandLists ==
    { <<>>,
      << ODDemand("s1", "C", "C", 25000, 0, DIRECT_INJECTION, "peak"),
         ODDemand("s1", "A", "E", 12500, 3, MIDDLE_MILE, "peak"),
         ODDemand("s1", "B", "E", 10000, 3, MIDDLE_MILE, "peak"),
         ODDemand("s1", "C", "C", 6000, 1, MIDDLE_MILE, "peak"),
         ODDemand("s1", "A", "C", 5000, 2, MIDDLE_MILE, "peak"),
         ODDemand("s1", "D", "E", 4000, 1, MIDDLE_MILE, "peak") >>,
      << ODDemand("s1", "A", "E", 12500, 3, MIDDLE_MILE, "peak"),
         ODDemand("s2", "B", "E", 8000, 3, MIDDLE_MILE, "offpeak"),
         ODDemand("s2", "E", "E", 3000, 0, DIRECT_INJECTION, "offpeak"),
         ODDemand("s2", "A", "E", 10, 3, MIDDLE_MILE, "offpeak") >>,
      << ODDemand("s1", "C", "C", 5000, 0, DIRECT_INJECTION, "peak") >> }

\* the largest top_paths_per_sort_level considered
MaxTopN == 3
\* top_paths_per_sort_level = None
NoTopN == 0 - 1

VARIABLES
    report_demands,              \* od_demands given to build_all_reports
    report_timings,              \* od_timings given to build_all_reports
    top_paths_per_sort_level,    \* the setting, NoTopN for None
    builder_timings,             \* ReportBuilder.od_timings
    summary,                     \* the rows of build_summary_df
    report_pc                    \* "start", "ready", "reported"

report_vars == <<report_demands, report_timings, top_paths_per_sort_level,
                 builder_timings, summary, report_pc>>

\* the report variables while build_all_reports is not run
ReportIdle ==
    /\ report_demands = <<>>
    /\ report_timings = <<>>
    /\ top_paths_per_sort_level = NoTopN
    /\ builder_timings = <<>>
    /\ summary = {}
    /\ report_pc = "start"

(***************************************************************************)
(* calculate_all_path_timings: the batch driver                            *)
(***************************************************************************)
\* calculate_path_timing raises KeyError: self.facilities[...] of a name the
\* facilities dict does not hold (the destination, a node of an arc, the origin)
path_timing_raises(facs, path) ==
    \/ path.dest \notin DOMAIN facs
    \/ path.origin \notin DOMAIN facs
    \/ /\ Len(path.path_nodes) >= 2
       /\ \E i \in 1..Len(path.path_nodes) : path.path_nodes[i] \notin DOMAIN facs

\* a driver whose failure handling loses the timings the OD has so far
try_path_timing_restart(facs, tp, timings, path) ==
    IF path_timing_raises(facs, path) THEN <<>>
    ELSE Append(timings, calculate_path_timing(facs, tp, path))

\* the try statement in the loop over the paths of an OD
try_path_timing(facs, tp, timings, path) ==
    IF path_timing_raises(facs, path) THEN timings
    ELSE Append(timings, calculate_path_timing(facs, tp, path))

\* a PathCandidate through a node that is not in the facilities sheet
StrayCandidate(origin, via, dest, sort_level) ==
    [origin |-> origin, dest |-> dest, path_nodes |-> <<origin, via, dest>>,
     path_type |-> path_type_of(2), sort_level |-> sort_level,
     total_path_miles |-> 0, direct_miles |-> 0, atw_factor |-> [num |-> 1, den |-> 1]]

\* the candidates the enumerator gives for an OD of the base network
PathsOf(origin, dest, touches) ==
    enumerate_paths_for_od(FacilityTable("base"), touches, [num |-> 3, den |-> 1],
                           origin, dest)

\* the od_paths dicts given to calculate_all_path_timings, as lists of entries
BatchPathTables ==
    { << [od |-> <<"A", "E">>,
          paths |-> SubSeq(PathsOf("A", "E", 1), 1, 1)
                    \o << StrayCandidate("A", "Z", "E", MARKET) >>
                    \o SubSeq(PathsOf("A", "E", 1), 2, 3)],
         [od |-> <<"B", "E">>, paths |-> << StrayCandidate("B", "Z", "E", REGION) >>],
         [od |-> <<"A", "C">>, paths |-> PathsOf("A", "C", 1)] >>,
      << [od |-> <<"D", "E">>, paths |-> <<>>],
         [od |-> <<"A", "E">>,
          paths |-> << StrayCandidate("A", "Z", "E", MARKET) >> \o PathsOf("A", "E", 2)] >>,
      << [od |-> <<"B", "C">>,
          paths |-> PathsOf("B", "C", 1) \o << StrayCandidate("B", "Z", "C", REGION),
                                              StrayCandidate("B", "Y", "C", MARKET) >>] >>,
      <<>> }

VARIABLES
    batch_paths,      \* od_paths given to calculate_all_path_timings
    batch_timings,    \* od_timings, the entries stored so far
    batch_current,    \* timings of the OD being processed
    batch_tried,      \* paths of that OD already tried
    batch_pc          \* "running", "returned"

batch_vars == <<batch_paths, batch_timings, batch_current, batch_tried, batch_pc>>

\* the batch variables while calculate_all_path_timings is not run
BatchIdle ==
    /\ batch_paths = <<>>
    /\ batch_timings = <<>>
    /\ batch_current = <<>>
    /\ batch_tried = 0
    /\ batch_pc = "running"

(***************************************************************************)
(* time_utils.py: the forward aligner, and the calls made of both aligners *)
(***************************************************************************)
\* Returns the instant at which processing may start.
next_window_start_utc(current_utc, window) ==
    LET current_local == utc_to_local(current_utc, window.timezone)
        current_date == DateOf(current_local)
        current_mins == time_to_minutes(TimeOf(current_local))
        start_mins == time_to_minutes(window.start_local)
        end_mins == time_to_minutes(window.end_local)
        today == Combine(current_date, window.start_local)
    IN IF crosses_midnight(window)
       THEN IF current_mins < end_mins
            THEN local_to_utc(Combine(current_date - 1, window.start_local),
                              window.timezone)
            ELSE local_to_utc(today, window.timezone)
       ELSE IF current_mins >= start_mins
            THEN IF current_mins < end_mins
                 THEN current_utc
                 ELSE local_to_utc(Combine(current_date + 1, window.start_local),
                                   window.timezone)
            ELSE local_to_utc(today, window.timezone)

\* the sort windows considered: day and overnight, in UTC and five hours west
AlignWindows ==
    { SortWindow(Time(6, 0), Time(14, 0), 0),
      SortWindow(Time(8, 30), Time(12, 0), 0 - 300),
      SortWindow(Time(22, 0), Time(6, 0), 0),
      SortWindow(Time(20, 0), Time(2, 30), 0 - 300) }

\* the instants considered: every half hour of three days around minute 0
AlignInstants == {30 * k : k \in (0 - 48)..96}

\* the processing_minutes considered
AlignProcessing == {30, 90, 600}

VARIABLES
    align_instant,      \* target_utc / current_utc of the call
    align_window,       \* the SortWindow of the call
    align_processing,   \* processing_minutes of the call
    align_start,        \* the instant returned
    align_dwell,        \* the dwell returned by align_to_window_end
    align_pc            \* "start", "aligned_back", "aligned_forward"

align_vars == <<align_instant, align_window, align_processing, align_start,
                align_dwell, align_pc>>

AlignIdle ==
    /\ align_instant = 0
    /\ align_window = NoWindow
    /\ align_processing = 0
    /\ align_start = 0
    /\ align_dwell = 0
    /\ align_pc = "start"

(***************************************************************************)
(* timing_engine.py: _find_latest_cpt called on its own                    *)
(***************************************************************************)
\* the required departure instants considered: every hour from five days
\* and ten hours before the reference date to one day after it
LookupInstants == {60 * k : k \in (0 - 130)..24}

VARIABLES
    lookup_cpts,        \* the cpts list of the call
    lookup_required,    \* required_by_utc of the call
    lookup_departure,   \* the departure instant returned
    lookup_dwell,       \* the dwell returned
    lookup_pc           \* "start", "found"

lookup_vars == <<lookup_cpts, lookup_required, lookup_departure, lookup_dwell, lookup_pc>>

LookupIdle ==
    /\ lookup_cpts = <<>>
    /\ lookup_required = 0
    /\ lookup_departure = 0
    /\ lookup_dwell = 0
    /\ lookup_pc = "start"

(***************************************************************************)
(* reporting.py: build_sla_miss_detail_df, and the inputs of a whole run   *)
(***************************************************************************)
\* round(x, 2) of a ratio that is not negative, in hundredths (ties to even)
Round2(r) ==
    LET q == (r.num * 100) \div r.den
        twice == 2 * ((r.num * 100) % r.den)
    IN IF twice > r.den \/ (twice = r.den /\ q % 2 = 1) THEN q + 1 ELSE q

\* round(pkgs_day, 0) of a volume in thousandths, in packages (ties to even)
Round0(pkgs) ==
    LET q == pkgs \div 1000
        twice == 2 * (pkgs % 1000)
    IN IF twice > 1000 \/ (twice = 1000 /\ q % 2 = 1) THEN q + 1 ELSE q

\* a loop body that reports an OD as soon as one of its timings misses
miss_detail_rows_any(demand, table) ==
    LET timings == timings_of(table, demand.origin, demand.dest)
    IN IF demand.flow_type = DIRECT_INJECTION \/ timings = <<>> THEN {}
       ELSE IF \A k \in 1..Len(timings) : timings[k].sla_met THEN {}
       ELSE { [scenario_id |-> demand.scenario_id, origin |-> demand.origin,
               dest |-> demand.dest, zone |-> demand.zone,
               pkgs_day |-> Round0(demand.pkgs_day),
               sla_days |-> best_of(timings).sla_days,
               best_tit_hours |-> Round2(best_of(timings).tit_hours),
               miss_hours |-> Round2(RatioMinus(best_of(timings).tit_hours,
                                                best_of(timings).sla_target_hours))] }

\* the body of the loop of build_sla_miss_detail_df over scenario_demands: the
\* rows appended for one demand; miss_hours is -sla_slack_hours
miss_detail_rows(demand, table) ==
    LET timings == timings_of(table, demand.origin, demand.dest)
    IN IF demand.flow_type = DIRECT_INJECTION \/ timings = <<>> THEN {}
       ELSE IF best_of(timings).sla_met THEN {}
       ELSE { [scenario_id |-> demand.scenario_id, origin |-> demand.origin,
               dest |-> demand.dest, zone |-> demand.zone,
               pkgs_day |-> Round0(demand.pkgs_day),
               sla_days |-> best_of(timings).sla_days,
               best_tit_hours |-> Round2(best_of(timings).tit_hours),
               miss_hours |-> Round2(RatioMinus(best_of(timings).tit_hours,
                                                best_of(timings).sla_target_hours))] }

\* ReportBuilder.build_sla_miss_detail_df: the rows of the frame
build_sla_miss_detail_df(demands, table) ==
    UNION { miss_detail_rows(demands[k], table) : k \in 1..Len(demands) }

\* calculate_all_path_timings for one OD of the base network: its timings
TimedEntry(origin, dest, touches) ==
    [od |-> <<origin, dest>>,
     timings |-> [k \in 1..Len(PathsOf(origin, dest, touches)) |->
                    calculate_path_timing(
                        FacilityTable("base"),
                        CHOOSE tp \in TimingParamSets : tp.induction_sort_minutes = 60,
                        PathsOf(origin, dest, touches)[k])]]

\* the od_timings dicts the timing stage hands to the feasibility stage
RunTimingTables ==
    { <<>>,
      << TimedEntry("B", "E", 1) >>,
      << TimedEntry("A", "E", 2), TimedEntry("B", "E", 2), TimedEntry("A", "C", 1) >>,
      << [od |-> <<"A", "E">>, timings |-> <<>>], TimedEntry("C", "E", 1),
         TimedEntry("B", "E", 2) >> }

VARIABLES
    sla_miss_detail,   \* the rows of the sla_miss_detail frame
    detail_pc          \* "start", "built"

detail_vars == <<sla_miss_detail, detail_pc>>

DetailIdle ==
    /\ sla_miss_detail = {}
    /\ detail_pc = "start"

vars == <<facilities, path_vars, cpt_vars, feas_vars, geo_vars, demand_vars, report_vars,
         batch_vars, align_vars, lookup_vars, detail_vars>>

(***************************************************************************)
(* The run: scripts/run.py steps 4 and 5 for one OD pair.                  *)
(***************************************************************************)
Init ==
    /\ \E v \in Variants : facilities = FacilityTable(v)
    /\ timing_params \in TimingParamSets
    /\ max_path_touches \in 1..MaxTouches
    /\ max_atw_factor \in AtwFactors
    /\ pc = "start"
    /\ od = <<None, None>>
    /\ od_paths = <<>>
    /\ od_timings = <<>>
    /\ CptIdle
    /\ FeasIdle
    /\ GeoIdle
    /\ DemandIdle
    /\ ReportIdle
    /\ BatchIdle
    /\ AlignIdle
    /\ LookupIdle
    /\ DetailIdle

\* enumerate_paths_for_od(origin, dest) for a pair of the facility map
EnumeratePathsForOd(origin, dest) ==
    /\ pc = "start"
    /\ od' = <<origin, dest>>
    /\ od_paths' = enumerate_paths_for_od(facilities, max_path_touches, max_atw_factor,
                                          origin, dest)
    /\ pc' = "enumerated"
    /\ UNCHANGED <<facilities, timing_params, max_path_touches, max_atw_factor, od_timings>>
    /\ UNCHANGED <<cpt_vars, feas_vars, geo_vars, demand_vars, report_vars>>
    /\ UNCHANGED batch_vars
    /\ UNCHANGED align_vars
    /\ UNCHANGED lookup_vars
    /\ UNCHANGED detail_vars

\* one pass of the loop "for path in paths" of calculate_all_path_timings
CalculatePathTiming ==
    /\ pc = "enumerated"
    /\ Len(od_timings) < Len(od_paths)
    /\ od_timings' = Append(od_timings,
                            calculate_path_timing(facilities, timing_params,
                                                  od_paths[Len(od_timings) + 1]))
    /\ UNCHANGED <<facilities, timing_params, max_path_touches, max_atw_factor,
                   pc, od, od_paths>>
    /\ UNCHANGED <<cpt_vars, feas_vars, geo_vars, demand_vars, report_vars>>
    /\ UNCHANGED batch_vars
    /\ UNCHANGED align_vars
    /\ UNCHANGED lookup_vars
    /\ UNCHANGED detail_vars

\* the loop is over: od_timings[(origin, dest)] = timings
FinishTimings ==
    /\ pc = "enumerated"
    /\ Len(od_timings) = Len(od_paths)
    /\ pc' = "timed"
    /\ UNCHANGED <<facilities, timing_params, max_path_touches, max_atw_factor,
                   od, od_paths, od_timings>>
    /\ UNCHANGED <<cpt_vars, feas_vars, geo_vars, demand_vars, report_vars>>
    /\ UNCHANGED batch_vars
    /\ UNCHANGED align_vars
    /\ UNCHANGED lookup_vars
    /\ UNCHANGED detail_vars

Next ==
    \/ \E origin \in Names, dest \in Names : EnumeratePathsForOd(origin, dest)
    \/ CalculatePathTiming
    \/ FinishTimings

Spec == Init /\ [][Next]_vars

(***************************************************************************)
(* CPT resolution on its own: a CPTGenerator is built from the facilities  *)
(* and an arc_cpts sheet, and get_cpts_for_arc is asked for one arc.       *)
(***************************************************************************)
\* the path variables while no path is enumerated
PathIdle ==
    /\ timing_params \in {tp \in TimingParamSets : tp.induction_sort_minutes = 60}
    /\ max_path_touches = 1
    /\ max_atw_factor = [num |-> 1, den |-> 1]
    /\ pc = "start"
    /\ od = <<None, None>>
    /\ od_paths = <<>>
    /\ od_timings = <<>>

CptInit ==
    /\ \E v \in Variants : facilities = FacilityTable(v)
    /\ PathIdle
    /\ arc_cpts \in ArcCptLists
    /\ cpt_arc = <<None, None>>
    /\ returned_cpts = <<>>
    /\ FeasIdle
    /\ GeoIdle
    /\ DemandIdle
    /\ ReportIdle
    /\ BatchIdle
    /\ AlignIdle
    /\ LookupIdle
    /\ DetailIdle

\* CPTGenerator(facilities, arc_cpts).get_cpts_for_arc(origin, dest)
GetCptsForArc(origin, dest) ==
    /\ cpt_arc = <<None, None>>
    /\ cpt_arc' = <<origin, dest>>
    /\ returned_cpts' = get_cpts_for_arc(facilities, arc_cpts, origin, dest)
    /\ UNCHANGED <<facilities, path_vars, arc_cpts, feas_vars, geo_vars, demand_vars,
                   report_vars>>
    /\ UNCHANGED batch_vars
    /\ UNCHANGED align_vars
    /\ UNCHANGED lookup_vars
    /\ UNCHANGED detail_vars

CptNext == \E origin \in Names, dest \in Names : GetCptsForArc(origin, dest)

CptSpec == CptInit /\ [][CptNext]_vars

(***************************************************************************)
(* The feasibility stage on its own: a FeasibilityChecker is built from a  *)
(* service_commitments sheet; get_commitment is asked for one (origin,     *)
(* dest, zone), or check_all_feasibility is run on an od_timings dict, up  *)
(* to MaxRuns times on the same dict.                                      *)
(***************************************************************************)
FeasInit ==
    /\ facilities = FacilityTable("base")
    /\ PathIdle
    /\ CptIdle
    /\ service_commitments \in CommitmentLists
    /\ od_demands \in DemandLists
    /\ checked_timings \in TimingTables
    /\ feas_pc = "start"
    /\ feas_runs = 0
    /\ commitment_query = <<None, None, NoZone>>
    /\ commitment = NoCommitment
    /\ GeoIdle
    /\ DemandIdle
    /\ ReportIdle
    /\ BatchIdle
    /\ AlignIdle
    /\ LookupIdle
    /\ DetailIdle

\* FeasibilityChecker(service_commitments).get_commitment(origin, dest, zone)
GetCommitment(origin, dest, zone) ==
    /\ feas_pc = "start"
    /\ commitment_query' = <<origin, dest, zone>>
    /\ commitment' = get_commitment(service_commitments, origin, dest, zone)
    /\ feas_pc' = "looked_up"
    /\ UNCHANGED <<facilities, path_vars, cpt_vars, geo_vars, demand_vars, report_vars,
                   service_commitments, od_demands,
                   checked_timings, feas_runs>>
    /\ UNCHANGED batch_vars
    /\ UNCHANGED align_vars
    /\ UNCHANGED lookup_vars
    /\ UNCHANGED detail_vars

\* check_all_feasibility(od_timings, od_demands, service_commitments) returns
CheckAllFeasibility ==
    /\ feas_pc \in {"start", "returned"}
    /\ feas_runs < MaxRuns
    /\ total_paths(checked_timings) # 0
    /\ checked_timings' = annotate_all(service_commitments, od_demands, checked_timings)
    /\ feas_pc' = "returned"
    /\ feas_runs' = feas_runs + 1
    /\ UNCHANGED <<facilities, path_vars, cpt_vars, geo_vars, demand_vars, report_vars,
                   service_commitments, od_demands,
                   commitment_query, commitment>>
    /\ UNCHANGED batch_vars
    /\ UNCHANGED align_vars
    /\ UNCHANGED lookup_vars
    /\ UNCHANGED detail_vars

\* check_all_feasibility raises ZeroDivisionError: the message of its
\* logger.info divides by total_paths
CheckAllFeasibilityRaises ==
    /\ feas_pc \in {"start", "returned"}
    /\ feas_runs < MaxRuns
    /\ total_paths(checked_timings) = 0
    /\ checked_timings' = annotate_all(service_commitments, od_demands, checked_timings)
    /\ feas_pc' = "raised"
    /\ UNCHANGED <<facilities, path_vars, cpt_vars, geo_vars, demand_vars, report_vars,
                   service_commitments, od_demands,
                   feas_runs, commitment_query, commitment>>
    /\ UNCHANGED batch_vars
    /\ UNCHANGED align_vars
    /\ UNCHANGED lookup_vars
    /\ UNCHANGED detail_vars

FeasNext ==
    \/ \E origin \in {"A", "B", "E"}, dest \in {"A", "E"}, zone \in Zones :
          GetCommitment(origin, dest, zone)
    \/ CheckAllFeasibility
    \/ CheckAllFeasibilityRaises

FeasSpec == FeasInit /\ [][FeasNext]_vars

(***************************************************************************)
(* get_zone_for_distance on its own                                        *)
(***************************************************************************)
GeoInit ==
    /\ facilities = FacilityTable("base")
    /\ PathIdle
    /\ CptIdle
    /\ FeasIdle
    /\ mileage_bands \in BandLists
    /\ asked_miles = NoMiles
    /\ zone_band = 0
    /\ DemandIdle
    /\ ReportIdle
    /\ BatchIdle
    /\ AlignIdle
    /\ LookupIdle
    /\ DetailIdle

\* get_zone_for_distance(distance_miles, mileage_bands)
GetZoneForDistance(distance_miles) ==
    /\ asked_miles = NoMiles
    /\ asked_miles' = distance_miles
    /\ zone_band' = get_zone_for_distance(distance_miles, mileage_bands)
    /\ UNCHANGED <<facilities, path_vars, cpt_vars, feas_vars, mileage_bands, demand_vars,
                   report_vars>>
    /\ UNCHANGED batch_vars
    /\ UNCHANGED align_vars
    /\ UNCHANGED lookup_vars
    /\ UNCHANGED detail_vars

GeoNext == \E distance_miles \in Distances : GetZoneForDistance(distance_miles)

GeoSpec == GeoInit /\ [][GeoNext]_vars

(***************************************************************************)
(* DemandBuilder for one scenario: build_demands calls _build_od_matrix    *)
(* and then logs the volume of each flow type.                             *)
(***************************************************************************)
DemandInit ==
    /\ facilities \in DemandFacilityTables
    /\ PathIdle
    /\ CptIdle
    /\ FeasIdle
    /\ mileage_bands \in DemandBandLists
    /\ asked_miles = NoMiles
    /\ zone_band = 0
    /\ demand_params \in DemandParams
    /\ dest_shares \in DestShareLists
    /\ injection_shares \in InjectionShareLists
    /\ scenario_demands = <<>>
    /\ demand_pc = "start"
    /\ ReportIdle
    /\ BatchIdle
    /\ AlignIdle
    /\ LookupIdle
    /\ DetailIdle

\* _build_od_matrix returns its list
BuildOdMatrix ==
    /\ demand_pc = "start"
    /\ ~zone_skip_raises(facilities, demand_params, dest_shares)
    /\ scenario_demands' = build_od_matrix(facilities, mileage_bands, "s1", demand_params,
                                           "peak", injection_shares, dest_shares)
    /\ demand_pc' = "built"
    /\ UNCHANGED <<facilities, path_vars, cpt_vars, feas_vars, geo_vars, report_vars,
                   demand_params, dest_shares, injection_shares>>
    /\ UNCHANGED batch_vars
    /\ UNCHANGED align_vars
    /\ UNCHANGED lookup_vars
    /\ UNCHANGED detail_vars

\* _build_od_matrix reaches FlowType.ZONE_SKIP: AttributeError
BuildOdMatrixRaises ==
    /\ demand_pc = "start"
    /\ zone_skip_raises(facilities, demand_params, dest_shares)
    /\ demand_pc' = "raised"
    /\ UNCHANGED <<facilities, path_vars, cpt_vars, feas_vars, geo_vars, report_vars,
                   demand_params, dest_shares, injection_shares, scenario_demands>>
    /\ UNCHANGED batch_vars
    /\ UNCHANGED align_vars
    /\ UNCHANGED lookup_vars
    /\ UNCHANGED detail_vars

\* build_demands after _build_od_matrix: with no record the flow type sums are
\* empty and the list is returned
ReturnDemands ==
    /\ demand_pc = "built"
    /\ scenario_demands = <<>>
    /\ demand_pc' = "returned"
    /\ UNCHANGED <<facilities, path_vars, cpt_vars, feas_vars, geo_vars, report_vars,
                   demand_params, dest_shares, injection_shares, scenario_demands>>
    /\ UNCHANGED batch_vars
    /\ UNCHANGED align_vars
    /\ UNCHANGED lookup_vars
    /\ UNCHANGED detail_vars

\* build_demands after _build_od_matrix: with a record the zone skip sum
\* evaluates FlowType.ZONE_SKIP: AttributeError
LogFlowTypesRaises ==
    /\ demand_pc = "built"
    /\ scenario_demands # <<>>
    /\ demand_pc' = "raised"
    /\ UNCHANGED <<facilities, path_vars, cpt_vars, feas_vars, geo_vars, report_vars,
                   demand_params, dest_shares, injection_shares, scenario_demands>>
    /\ UNCHANGED batch_vars
    /\ UNCHANGED align_vars
    /\ UNCHANGED lookup_vars
    /\ UNCHANGED detail_vars

DemandNext ==
    \/ BuildOdMatrix
    \/ BuildOdMatrixRaises
    \/ ReturnDemands
    \/ LogFlowTypesRaises

DemandSpec == DemandInit /\ [][DemandNext]_vars

(***************************************************************************)
(* build_all_reports: the optional pruning, then the summary               *)
(***************************************************************************)
ReportInit ==
    /\ facilities = FacilityTable("base")
    /\ PathIdle
    /\ CptIdle
    /\ FeasIdle
    /\ GeoIdle
    /\ DemandIdle
    /\ report_demands \in ReportDemandLists
    /\ report_timings \in ReportTimingTables
    /\ top_paths_per_sort_level \in {NoTopN} \cup (0..MaxTopN)
    /\ builder_timings = <<>>
    /\ summary = {}
    /\ report_pc = "start"
    /\ BatchIdle
    /\ AlignIdle
    /\ LookupIdle
    /\ DetailIdle

\* top_paths_per_sort_level is given and positive: the builder gets the pruned dict
FilterTopPaths ==
    /\ report_pc = "start"
    /\ top_paths_per_sort_level # NoTopN /\ top_paths_per_sort_level > 0
    /\ builder_timings' =
           filter_top_paths_per_sort_level(report_timings, top_paths_per_sort_level)
    /\ report_pc' = "ready"
    /\ UNCHANGED <<facilities, path_vars, cpt_vars, feas_vars, geo_vars, demand_vars,
                   report_demands, report_timings, top_paths_per_sort_level, summary>>
    /\ UNCHANGED batch_vars
    /\ UNCHANGED align_vars
    /\ UNCHANGED lookup_vars
    /\ UNCHANGED detail_vars

\* no pruning: the builder gets od_timings itself
KeepAllPaths ==
    /\ report_pc = "start"
    /\ ~(top_paths_per_sort_level # NoTopN /\ top_paths_per_sort_level > 0)
    /\ builder_timings' = report_timings
    /\ report_pc' = "ready"
    /\ UNCHANGED <<facilities, path_vars, cpt_vars, feas_vars, geo_vars, demand_vars,
                   report_demands, report_timings, top_paths_per_sort_level, summary>>
    /\ UNCHANGED batch_vars
    /\ UNCHANGED align_vars
    /\ UNCHANGED lookup_vars
    /\ UNCHANGED detail_vars

\* ReportBuilder.build_summary_df
BuildSummary ==
    /\ report_pc = "ready"
    /\ summary' = build_summary_df(report_demands, builder_timings)
    /\ report_pc' = "reported"
    /\ UNCHANGED <<facilities, path_vars, cpt_vars, feas_vars, geo_vars, demand_vars,
                   report_demands, report_timings, top_paths_per_sort_level,
                   builder_timings>>
    /\ UNCHANGED batch_vars
    /\ UNCHANGED align_vars
    /\ UNCHANGED lookup_vars
    /\ UNCHANGED detail_vars

ReportNext ==
    \/ FilterTopPaths
    \/ KeepAllPaths
    \/ BuildSummary

ReportSpec == ReportInit /\ [][ReportNext]_vars

(***************************************************************************)
(* calculate_all_path_timings on an od_paths dict                          *)
(***************************************************************************)
BatchInit ==
    /\ \E v \in Variants : facilities = FacilityTable(v)
    /\ timing_params \in TimingParamSets
    /\ max_path_touches = 1
    /\ max_atw_factor = [num |-> 1, den |-> 1]
    /\ pc = "start"
    /\ od = <<None, None>>
    /\ od_paths = <<>>
    /\ od_timings = <<>>
    /\ CptIdle
    /\ FeasIdle
    /\ GeoIdle
    /\ DemandIdle
    /\ ReportIdle
    /\ batch_paths \in BatchPathTables
    /\ batch_timings = <<>>
    /\ batch_current = <<>>
    /\ batch_tried = 0
    /\ batch_pc = "running"
    /\ AlignIdle
    /\ LookupIdle
    /\ DetailIdle

\* the entry of od_paths the outer loop is at
BatchEntry == batch_paths[Len(batch_timings) + 1]

\* one pass of "for path in paths": calculate_path_timing returns
TimePath ==
    /\ batch_pc = "running"
    /\ Len(batch_timings) < Len(batch_paths)
    /\ batch_tried < Len(BatchEntry.paths)
    /\ ~path_timing_raises(facilities, BatchEntry.paths[batch_tried + 1])
    /\ batch_current' = try_path_timing(facilities, timing_params, batch_current,
                                        BatchEntry.paths[batch_tried + 1])
    /\ batch_tried' = batch_tried + 1
    /\ UNCHANGED <<facilities, path_vars, cpt_vars, feas_vars, geo_vars, demand_vars,
                   report_vars, batch_paths, batch_timings, batch_pc>>
    /\ UNCHANGED align_vars
    /\ UNCHANGED lookup_vars
    /\ UNCHANGED detail_vars

\* one pass of "for path in paths": calculate_path_timing raises, the
\* exception is logged
SkipFailedPath ==
    /\ batch_pc = "running"
    /\ Len(batch_timings) < Len(batch_paths)
    /\ batch_tried < Len(BatchEntry.paths)
    /\ path_timing_raises(facilities, BatchEntry.paths[batch_tried + 1])
    /\ batch_current' = try_path_timing(facilities, timing_params, batch_current,
                                        BatchEntry.paths[batch_tried + 1])
    /\ batch_tried' = batch_tried + 1
    /\ UNCHANGED <<facilities, path_vars, cpt_vars, feas_vars, geo_vars, demand_vars,
                   report_vars, batch_paths, batch_timings, batch_pc>>
    /\ UNCHANGED align_vars
    /\ UNCHANGED lookup_vars
    /\ UNCHANGED detail_vars

\* od_timings[(origin, dest)] = timings
StoreOdTimings ==
    /\ batch_pc = "running"
    /\ Len(batch_timings) < Len(batch_paths)
    /\ batch_tried = Len(BatchEntry.paths)
    /\ batch_timings' = Append(batch_timings,
                               [od |-> BatchEntry.od, timings |-> batch_current])
    /\ batch_current' = <<>>
    /\ batch_tried' = 0
    /\ UNCHANGED <<facilities, path_vars, cpt_vars, feas_vars, geo_vars, demand_vars,
                   report_vars, batch_paths, batch_pc>>
    /\ UNCHANGED align_vars
    /\ UNCHANGED lookup_vars
    /\ UNCHANGED detail_vars

\* return od_timings
ReturnOdTimings ==
    /\ batch_pc = "running"
    /\ Len(batch_timings) = Len(batch_paths)
    /\ batch_pc' = "returned"
    /\ UNCHANGED <<facilities, path_vars, cpt_vars, feas_vars, geo_vars, demand_vars,
                   report_vars, batch_paths, batch_timings, batch_current, batch_tried>>
    /\ UNCHANGED align_vars
    /\ UNCHANGED lookup_vars
    /\ UNCHANGED detail_vars

BatchNext ==
    \/ TimePath
    \/ SkipFailedPath
    \/ StoreOdTimings
    \/ ReturnOdTimings

BatchSpec == BatchInit /\ [][BatchNext]_vars

(***************************************************************************)
(* The window aligners called on their own.                                *)
(***************************************************************************)
AlignInit ==
    /\ facilities = FacilityTable("base")
    /\ PathIdle
    /\ CptIdle
    /\ FeasIdle
    /\ GeoIdle
    /\ DemandIdle
    /\ ReportIdle
    /\ BatchIdle
    /\ AlignIdle
    /\ LookupIdle
    /\ DetailIdle

\* align_to_window_end(target_utc, window, processing_minutes) returns
AlignToWindowEnd(target_utc, window, processing_minutes) ==
    /\ align_pc = "start"
    /\ align_instant' = target_utc
    /\ align_window' = window
    /\ align_processing' = processing_minutes
    /\ align_start' = align_to_window_end(target_utc, window, processing_minutes).start_utc
    /\ align_dwell' =
           align_to_window_end(target_utc, window, processing_minutes).dwell_minutes
    /\ align_pc' = "aligned_back"
    /\ UNCHANGED <<facilities, path_vars, cpt_vars, feas_vars, geo_vars, demand_vars,
                   report_vars, batch_vars>>
    /\ UNCHANGED lookup_vars
    /\ UNCHANGED detail_vars

\* next_window_start_utc(current_utc, window) returns
NextWindowStartUtc(current_utc, window) ==
    /\ align_pc = "start"
    /\ align_instant' = current_utc
    /\ align_window' = window
    /\ align_start' = next_window_start_utc(current_utc, window)
    /\ align_pc' = "aligned_forward"
    /\ UNCHANGED <<facilities, path_vars, cpt_vars, feas_vars, geo_vars, demand_vars,
                   report_vars, batch_vars, align_processing, align_dwell>>
    /\ UNCHANGED lookup_vars
    /\ UNCHANGED detail_vars

AlignNext ==
    \/ \E t \in AlignInstants, w \in AlignWindows, p \in AlignProcessing :
           AlignToWindowEnd(t, w, p)
    \/ \E t \in AlignInstants, w \in AlignWindows : NextWindowStartUtc(t, w)

AlignSpec == AlignInit /\ [][AlignNext]_vars

(***************************************************************************)
(* The backward CPT lookup of one arc.                                     *)
(***************************************************************************)
LookupInit ==
    /\ \E v \in Variants : facilities = FacilityTable(v)
    /\ PathIdle
    /\ arc_cpts \in ArcCptLists
    /\ cpt_arc = <<None, None>>
    /\ returned_cpts = <<>>
    /\ FeasIdle
    /\ GeoIdle
    /\ DemandIdle
    /\ ReportIdle
    /\ BatchIdle
    /\ AlignIdle
    /\ LookupIdle
    /\ DetailIdle

\* _find_latest_cpt(required_by_utc, get_cpts_for_arc(origin, dest), origin_fac)
\* returns
FindLatestCpt(origin, dest, required_by_utc) ==
    /\ lookup_pc = "start"
    /\ lookup_cpts' = get_cpts_for_arc(facilities, arc_cpts, origin, dest)
    /\ lookup_required' = required_by_utc
    /\ lookup_departure' =
           find_latest_cpt(required_by_utc,
                           get_cpts_for_arc(facilities, arc_cpts, origin, dest)).departure_utc
    /\ lookup_dwell' =
           find_latest_cpt(required_by_utc,
                           get_cpts_for_arc(facilities, arc_cpts, origin, dest)).dwell_minutes
    /\ lookup_pc' = "found"
    /\ UNCHANGED <<facilities, path_vars, cpt_vars, feas_vars, geo_vars, demand_vars,
                   report_vars, batch_vars, align_vars>>
    /\ UNCHANGED detail_vars

LookupNext ==
    \E origin \in Names, dest \in Names, t \in LookupInstants :
        FindLatestCpt(origin, dest, t)

LookupSpec == LookupInit /\ [][LookupNext]_vars

(***************************************************************************)
(* The run: scripts/run.py steps 6 and 7, check_all_feasibility and then   *)
(* build_all_reports on what it returns.                                   *)
(***************************************************************************)
RunInit ==
    /\ facilities = FacilityTable("base")
    /\ PathIdle
    /\ CptIdle
    /\ service_commitments \in CommitmentLists
    /\ od_demands \in ReportDemandLists
    /\ checked_timings \in RunTimingTables
    /\ feas_pc = "start"
    /\ feas_runs = 0
    /\ commitment_query = <<None, None, NoZone>>
    /\ commitment = NoCommitment
    /\ GeoIdle
    /\ DemandIdle
    /\ report_demands = <<>>
    /\ report_timings = <<>>
    /\ top_paths_per_sort_level \in {NoTopN} \cup (0..MaxTopN)
    /\ builder_timings = <<>>
    /\ summary = {}
    /\ report_pc = "waiting"
    /\ BatchIdle
    /\ AlignIdle
    /\ LookupIdle
    /\ DetailIdle

\* build_all_reports(od_demands, od_timings, top_paths_per_sort_level) is called
\* with the dict check_all_feasibility returned
BuildAllReports ==
    /\ feas_pc = "returned"
    /\ report_pc = "waiting"
    /\ report_demands' = od_demands
    /\ report_timings' = checked_timings
    /\ report_pc' = "start"
    /\ UNCHANGED <<facilities, path_vars, cpt_vars, feas_vars, geo_vars, demand_vars,
                   top_paths_per_sort_level, builder_timings, summary,
                   batch_vars, align_vars, lookup_vars, detail_vars>>

\* ReportBuilder.build_sla_miss_detail_df, after the summary
BuildSlaMissDetail ==
    /\ report_pc = "reported"
    /\ detail_pc = "start"
    /\ sla_miss_detail' = build_sla_miss_detail_df(report_demands, builder_timings)
    /\ detail_pc' = "built"
    /\ UNCHANGED <<facilities, path_vars, cpt_vars, feas_vars, geo_vars, demand_vars,
                   report_vars, batch_vars, align_vars, lookup_vars>>

RunNext ==
    \/ report_pc = "waiting" /\ feas_pc = "start" /\ CheckAllFeasibility
    \/ report_pc = "waiting" /\ feas_pc = "start" /\ CheckAllFeasibilityRaises
    \/ BuildAllReports
    \/ FilterTopPaths
    \/ KeepAllPaths
    \/ BuildSummary
    \/ BuildSlaMissDetail

RunSpec == RunInit /\ [][RunNext]_vars

(***************************************************************************)
(* Claims                                                                  *)
(***************************************************************************)
Timings == {od_timings[k] : k \in 1..Len(od_timings)}
Candidates == {od_paths[k] : k \in 1..Len(od_paths)}
StepsOf(t) == {t.steps[k] : k \in 1..Len(t.steps)}

RECURSIVE SumOver(_, _, _)
\* the sum of F(steps[k]) for k in i..Len(steps)
SumOver(F(_), steps, i) ==
    IF i > Len(steps) THEN 0 ELSE F(steps[i]) + SumOver(F, steps, i + 1)

Duration(step) == step.duration_minutes
Dwell(step) == step.sort_window_dwell_minutes + step.cpt_dwell_minutes

\* the value of an hours field in minutes, defined when it is a whole number
MinutesOf(hours) == (hours.num * MINUTES_PER_HOUR) \div hours.den
WholeMinutes(hours) == (hours.num * MINUTES_PER_HOUR) % hours.den = 0

\* C1: every timing starts from the fixed injection instant: its
\* required_injection_utc is the reference injection date at the reference
\* injection time, converted from the origin's zone to UTC, and so is the same
\* for all paths that share an origin.
C1_FixedInjectionInstant ==
    /\ \A t \in Timings :
          t.required_injection_utc =
              local_to_utc(Combine(reference_date, reference_injection_time),
                           facilities[t.path.origin].timezone)
    /\ \A t1, t2 \in Timings :
          t1.path.origin = t2.path.origin
              => t1.required_injection_utc = t2.required_injection_utc

\* C2: for every timing, tit_hours = (delivery_datetime_utc -
\* required_injection_utc) / 3600 s, required_injection_utc is the start of the
\* first step and delivery_datetime_utc is the end of the last step, also when
\* the destination has no last-mile sort window.
C2_TitSpansFirstToLastStep ==
    \A t \in Timings :
        /\ WholeMinutes(t.tit_hours)
        /\ MinutesOf(t.tit_hours) = t.delivery_datetime_utc - t.required_injection_utc
        /\ t.required_injection_utc = t.steps[1].start_utc
        /\ t.delivery_datetime_utc = t.steps[Len(t.steps)].end_utc

\* C3: every emitted step satisfies end_utc - start_utc = duration_minutes;
\* waiting is carried by the dwell fields only.
C3_StepIntervalIsDuration ==
    \A t \in Timings : \A step \in StepsOf(t) :
        step.end_utc - step.start_utc = step.duration_minutes

\* C4: for every timing the durations of its steps sum to at most
\* tit_hours x 60, and the difference is the sum of the steps' sort-window and
\* CPT dwell minutes, which is total_dwell_hours x 60.
C4_DurationsPlusDwellIsTit ==
    \A t \in Timings :
        /\ SumOver(Duration, t.steps, 1) <= MinutesOf(t.tit_hours)
        /\ MinutesOf(t.tit_hours) - SumOver(Duration, t.steps, 1)
              = SumOver(Dwell, t.steps, 1)
        /\ SumOver(Dwell, t.steps, 1) = MinutesOf(t.total_dwell_hours)

NodesOf(c) == {c.path_nodes[k] : k \in 1..Len(c.path_nodes)}
Enumerated == pc # "start"
Origin == od[1]
Dest == od[2]

\* C5: every candidate returned for any (origin, dest) has an origin of type HUB
\* or HYBRID, a destination of type LAUNCH or HYBRID, only HUB or HYBRID
\* intermediates and pairwise distinct nodes; the direct candidate included.
C5_ReturnedPathsAreWellFormed ==
    \A c \in Candidates :
        LET n == Len(c.path_nodes) IN
        /\ facilities[c.path_nodes[1]].facility_type \in {HUB, HYBRID}
        /\ facilities[c.path_nodes[n]].facility_type \in {LAUNCH, HYBRID}
        /\ \A k \in 2..(n - 1) :
              facilities[c.path_nodes[k]].facility_type \in {HUB, HYBRID}
        /\ \A j, k \in 1..n : j # k => c.path_nodes[j] # c.path_nodes[k]

\* C6: when the destination has a parent hub and the origin neither is that hub
\* nor has it as its own parent, every returned node sequence, the direct one
\* included, contains the destination's parent hub.
C6_PathsGoThroughParentHub ==
    Enumerated =>
        LET parent == facilities[Dest].parent_hub_name IN
        (/\ parent # None
         /\ Origin # parent
         /\ facilities[Origin].parent_hub_name # parent)
            => \A c \in Candidates : parent \in NodesOf(c)

\* C7: a REGION candidate is returned only for a non-direct sequence whose
\* second-to-last node is the destination's regional_sort_hub; every other
\* candidate is a SORT_GROUP or MARKET one.
C7_RegionOnlyViaRegionalSortHub ==
    \A c \in Candidates :
        /\ c.sort_level \in {REGION, MARKET, SORT_GROUP}
        /\ c.sort_level = REGION =>
              /\ Len(c.path_nodes) > 2
              /\ c.path_nodes[Len(c.path_nodes) - 1]
                    = facilities[c.dest].regional_sort_hub

AtwWithin(c) ==
    c.atw_factor.num * max_atw_factor.den <= max_atw_factor.num * c.atw_factor.den
EnumeratedVariants ==
    LET all == all_candidates(facilities, max_path_touches, Origin, Dest)
    IN {all[k] : k \in 1..Len(all)}

\* C8: no returned candidate has atw_factor above max_atw_factor, every
\* enumerated variant with atw_factor <= max_atw_factor is returned, and with
\* max_atw_factor = 1.0 the direct candidate is returned.
C8_AtwFilterIsExact ==
    Enumerated =>
        /\ \A c \in Candidates : AtwWithin(c)
        /\ \A c \in EnumeratedVariants : AtwWithin(c) => c \in Candidates
        /\ (max_atw_factor.num = max_atw_factor.den)
              => \E c \in Candidates : c.path_nodes = <<Origin, Dest>>

\* a non-direct candidate exactly on the limit is returned while another
\* enumerated variant is dropped
C8_Witness ==
    /\ Enumerated
    /\ \E c \in Candidates :
          /\ Len(c.path_nodes) > 2
          /\ c.atw_factor.num * max_atw_factor.den
                = max_atw_factor.num * c.atw_factor.den
    /\ \E c \in EnumeratedVariants : c \notin Candidates

\* C9: when origin = destination exactly one candidate is returned, with nodes
\* [origin, dest], sort level SORT_GROUP, zero total miles and ATW factor 1.0,
\* whatever max_path_touches and the set of hubs.
C9_SameFacilityHasOneCandidate ==
    (Enumerated /\ Origin = Dest) =>
        /\ Len(od_paths) = 1
        /\ od_paths[1].path_nodes = <<Origin, Dest>>
        /\ od_paths[1].sort_level = SORT_GROUP
        /\ od_paths[1].total_path_miles = 0
        /\ od_paths[1].atw_factor.num = od_paths[1].atw_factor.den

\* C10: with max_path_touches = 1 only the direct node sequence is returned;
\* in general every returned candidate has at most max_path_touches edges and
\* at most 5 nodes.
C10_TouchLimit ==
    \A c \in Candidates :
        /\ max_path_touches = 1 => c.path_nodes = <<Origin, Dest>>
        /\ Len(c.path_nodes) - 1 <= max_path_touches
        /\ Len(c.path_nodes) <= 5

\* max_path_touches = 1 for a pair that has a valid one-hub sequence within the
\* ATW limit, and candidates were returned
C10_Witness ==
    /\ Enumerated
    /\ max_path_touches = 1
    /\ od_paths # <<>>
    /\ \E c \in {all_candidates(facilities, 2, Origin, Dest)[k] :
                    k \in 1..Len(all_candidates(facilities, 2, Origin, Dest))} :
          Len(c.path_nodes) = 3 /\ AtwWithin(c)

CountIn(x, seq) == Cardinality({k \in 1..Len(seq) : seq[k] = x})
ExplicitFor(origin, dest) ==
    {arc_cpts[k] : k \in {j \in 1..Len(arc_cpts) :
                             arc_cpts[j].origin = origin /\ arc_cpts[j].dest = dest}}
CptAsked == cpt_arc # <<None, None>>

\* C11: get_cpts_for_arc(origin, dest) returns exactly the explicit CPTs of
\* (origin, dest), unchanged and with no synthesized CPT among them, when there
\* are any; otherwise the synthesized schedule of (origin, "*"), each CPT
\* rebound to dest with the same sequence, local time, day mask and zone, when
\* the origin has one; otherwise the empty list.
C11_CptResolution ==
    CptAsked =>
        LET origin == cpt_arc[1]
            dest == cpt_arc[2]
            explicit == ExplicitFor(origin, dest)
            schedule == generate_facility_cpts(origin, facilities[origin])
        IN IF explicit # {}
           THEN /\ \A k \in 1..Len(returned_cpts) : returned_cpts[k] \in explicit
                /\ \A c \in explicit : CountIn(c, returned_cpts) = CountIn(c, arc_cpts)
           ELSE IF has_generated_cpts(facilities[origin])
           THEN /\ Len(returned_cpts) = Len(schedule)
                /\ \A k \in 1..Len(returned_cpts) :
                      /\ returned_cpts[k].origin = origin
                      /\ returned_cpts[k].dest = dest
                      /\ returned_cpts[k].cpt_sequence = schedule[k].cpt_sequence
                      /\ returned_cpts[k].cpt_local = schedule[k].cpt_local
                      /\ returned_cpts[k].days_of_week = schedule[k].days_of_week
                      /\ returned_cpts[k].timezone = schedule[k].timezone
           ELSE returned_cpts = <<>>

\* explicit CPTs were asked for an arc whose origin also has a synthesized
\* schedule, and were returned
C11_Witness ==
    /\ CptAsked
    /\ ExplicitFor(cpt_arc[1], cpt_arc[2]) # {}
    /\ has_generated_cpts(facilities[cpt_arc[1]])
    /\ Len(returned_cpts) = 2

NoCptArc(step) ==
    /\ step.step_type = TRANSIT
    /\ get_cpts_for_arc(facilities, ArcCpts, step.from_facility, step.to_facility) = <<>>
\* the instant the package is due after step k of timing t
DueAfter(t, k) ==
    IF k < Len(t.steps) THEN t.steps[k + 1].start_utc ELSE t.delivery_datetime_utc

\* C12: a path with an arc that has no CPT at all still gets a timing; the
\* transit on that arc leaves at the required instant with
\* cpt_dwell_minutes = 0, and the timing carries uses_only_active_arcs = false.
C12_MissingArcCpt ==
    /\ pc = "timed" => Len(od_timings) = Len(od_paths)
    /\ \A t \in Timings : \A k \in 1..Len(t.steps) :
          NoCptArc(t.steps[k]) =>
              /\ t.steps[k].cpt_dwell_minutes = 0
              /\ t.steps[k].start_utc = DueAfter(t, k) - t.steps[k].duration_minutes
              /\ "uses_only_active_arcs" \in DOMAIN t
              /\ t.uses_only_active_arcs = FALSE

Commitments == {service_commitments[k] : k \in 1..Len(service_commitments)}
SpecificFor(origin, dest) ==
    {sc \in Commitments : sc.origin = origin /\ sc.dest = dest}
OriginOnlyFor(origin) ==
    {sc \in Commitments : sc.origin = origin /\ sc.dest = "*"}
DestOnlyFor(dest) ==
    {sc \in Commitments : sc.origin = "*" /\ sc.dest = dest}
ZoneOnlyFor(zone) ==
    {sc \in Commitments : sc.origin = "*" /\ sc.dest = "*" /\ sc.zone = zone}
AllWildcard ==
    {sc \in Commitments : sc.origin = "*" /\ sc.dest = "*" /\ sc.zone = NoZone}
\* the commitments the priority order allows for (origin, dest, zone); empty
\* when none applies
Allowed(origin, dest, zone) ==
    IF SpecificFor(origin, dest) # {} THEN SpecificFor(origin, dest)
    ELSE IF OriginOnlyFor(origin) # {} THEN OriginOnlyFor(origin)
    ELSE IF DestOnlyFor(dest) # {} THEN DestOnlyFor(dest)
    ELSE IF ZoneOnlyFor(zone) # {} THEN ZoneOnlyFor(zone)
    ELSE AllWildcard

\* C13: get_commitment(origin, dest, zone) returns the specific (origin, dest)
\* commitment if there is one, else the origin-only one, else the dest-only
\* one, else the zone-only one of that zone, else the all-wildcard default,
\* else none.
C13_CommitmentPriority ==
    feas_pc = "looked_up" =>
        LET allowed == Allowed(commitment_query[1], commitment_query[2],
                               commitment_query[3])
        IN IF allowed = {} THEN commitment = NoCommitment
           ELSE commitment \in allowed

\* a dest-only commitment was returned although a zone-only one of the zone
\* and a default exist
C13_Witness ==
    /\ feas_pc = "looked_up"
    /\ commitment \in DestOnlyFor(commitment_query[2])
    /\ ZoneOnlyFor(commitment_query[3]) # {}
    /\ AllWildcard # {}

RatioEq(r1, r2) == r1.num * r2.den = r2.num * r1.den
\* the (entry, timing) positions of the annotated dict
CheckedAt == {<<e, k>> \in (1..Len(checked_timings)) \X (1..3) :
                k <= Len(checked_timings[e].timings)}
\* the zone check_all_feasibility looks up for an OD: its last demand's, or 1
ZoneOf(pair) ==
    LET zs == {k \in 1..Len(od_demands) :
                 od_demands[k].origin = pair[1] /\ od_demands[k].dest = pair[2]}
    IN IF zs = {} THEN 1 ELSE od_demands[CHOOSE k \in zs : \A j \in zs : j <= k].zone
\* tit_hours <= (sla_days + sla_buffer_days) x 24, in minutes x buffer denominator
WithinTarget(t, sc) ==
    t.tit_hours.num * sc.sla_buffer_days.den
        <= (sc.sla_days * sc.sla_buffer_days.den + sc.sla_buffer_days.num)
             * 24 * t.tit_hours.den
AnnotatedFrom(t, sc) ==
    LET target == [num |-> (sc.sla_days * sc.sla_buffer_days.den
                              + sc.sla_buffer_days.num) * 24,
                   den |-> sc.sla_buffer_days.den]
    IN /\ RatioEq(t.sla_target_hours, target)
       /\ t.sla_met = WithinTarget(t, sc)
       /\ RatioEq(t.sla_slack_hours,
                  [num |-> target.num * t.tit_hours.den - t.tit_hours.num * target.den,
                   den |-> target.den * t.tit_hours.den])

\* C14: after check_feasibility, sla_met = (tit_hours <= sla_target_hours) and
\* sla_slack_hours = sla_target_hours - tit_hours with sla_target_hours =
\* (sla_days + sla_buffer_days) x 24 of the matched commitment; with no
\* matching commitment sla_target_hours is +infinity and sla_met is true.
C14_SlaAnnotation ==
    feas_pc = "returned" =>
        \A p \in CheckedAt :
            LET entry == checked_timings[p[1]]
                t == entry.timings[p[2]]
                allowed == Allowed(entry.od[1], entry.od[2], ZoneOf(entry.od))
            IN IF allowed = {}
               THEN t.sla_target_hours = Infinity /\ t.sla_met = TRUE
               ELSE \E sc \in allowed : AnnotatedFrom(t, sc)

\* annotated timings exist with tit_hours exactly on the target (met), above
\* it (missed), and one without any matching commitment
C14_Witness ==
    /\ feas_pc = "returned"
    /\ \E p \in CheckedAt :
          LET t == checked_timings[p[1]].timings[p[2]]
          IN RatioEq(t.tit_hours, t.sla_target_hours) /\ t.sla_met
    /\ \E p \in CheckedAt : ~checked_timings[p[1]].timings[p[2]].sla_met
    /\ \E p \in CheckedAt :
          checked_timings[p[1]].timings[p[2]].sla_target_hours = Infinity

SlaFields(t) ==
    <<t.sla_days, t.sla_buffer_days, t.sla_target_hours, t.sla_met,
      t.sla_slack_hours, t.priority_weight>>

\* C15: a second check_all_feasibility on already annotated timings, with the
\* same commitments and zones, leaves sla_days, sla_buffer_days,
\* sla_target_hours, sla_met, sla_slack_hours and priority_weight of every
\* timing as the first application set them.
C15_FeasibilityIdempotent ==
    [][(feas_runs >= 1 /\ feas_runs' = feas_runs + 1) =>
          /\ Len(checked_timings') = Len(checked_timings)
          /\ \A p \in CheckedAt :
                SlaFields(checked_timings'[p[1]].timings[p[2]])
                    = SlaFields(checked_timings[p[1]].timings[p[2]])]_vars

\* check_all_feasibility has run twice on timings matched by a commitment with
\* a priority weight other than 1, some met and some missed
C15_Witness ==
    /\ feas_runs = 2
    /\ \E p \in CheckedAt :
          /\ checked_timings[p[1]].timings[p[2]].priority_weight > 1
          /\ checked_timings[p[1]].timings[p[2]].sla_met
    /\ \E p \in CheckedAt : ~checked_timings[p[1]].timings[p[2]].sla_met

\* C16: check_all_feasibility returns normally for every input, an empty
\* commitment list, ODs without matching commitment, ODs with an empty timing
\* list and a run without any path timing included.
C16_FeasibilityNeverFails == feas_pc # "raised"

\* C17: over contiguous bands ordered by zone, a distance equal to a band's
\* lower bound maps to that band, a distance equal to the upper bound of a band
\* that is not the last maps to the next band, a distance equal to or above the
\* last band's upper bound maps to the last band, and with no bands the result
\* is none.
C17_BandBoundaries ==
    asked_miles # NoMiles =>
        LET n == Len(mileage_bands) IN
        /\ n = 0 => zone_band = 0
        /\ \A i \in 1..n :
              asked_miles = mileage_bands[i].mileage_band_min => zone_band = i
        /\ \A i \in 1..(n - 1) :
              asked_miles = mileage_bands[i].mileage_band_max => zone_band = i + 1
        /\ (n > 0 /\ asked_miles >= mileage_bands[n].mileage_band_max) => zone_band = n

\* C18: in every ODDemand the demand builder produces, the flow type is
\* DIRECT_INJECTION exactly when origin = dest and zone = 0; so a MIDDLE_MILE
\* record kept for a HYBRID with origin = dest never carries zone 0.
C18_DirectInjectionIffZoneZero ==
    \A k \in 1..Len(scenario_demands) :
        LET d == scenario_demands[k] IN
        d.flow_type = DIRECT_INJECTION <=> (d.origin = d.dest /\ d.zone = 0)

\* the positions in od_demands of the demands of a scenario
DemandsOf(scenario_id) ==
    {k \in 1..Len(report_demands) : report_demands[k].scenario_id = scenario_id}

\* the volume of the demands at the positions S
RECURSIVE VolumeOf(_)
VolumeOf(S) ==
    IF S = {} THEN 0
    ELSE LET k == CHOOSE j \in S : TRUE
         IN report_demands[k].pkgs_day + VolumeOf(S \ {k})

\* the timings the report builder holds for the (origin, dest) of demand k
TimingsFor(k) ==
    {<<e, j>> \in (1..Len(builder_timings)) \X (1..9) :
        /\ builder_timings[e].od = <<report_demands[k].origin, report_demands[k].dest>>
        /\ j <= Len(builder_timings[e].timings)}
HasFeasible(k) ==
    \E p \in TimingsFor(k) : builder_timings[p[1]].timings[p[2]].sla_met
IsDirectInjection(k) == report_demands[k].flow_type = DIRECT_INJECTION

\* C19: in the summary of a scenario, volume_at_sla is the volume of the
\* demands that are DIRECT_INJECTION or have at least one timing with sla_met
\* for their (origin, dest); volume_missed is the volume of the other demands
\* that have timings, none of them feasible; and volume_at_sla +
\* volume_missed is never more than total_packages.
C19_SummaryVolumes ==
    report_pc = "reported" =>
        \A k0 \in 1..Len(report_demands) :
            LET s == report_demands[k0].scenario_id
                rows == {r \in summary : r.scenario_id = s}
            IN /\ Cardinality(rows) = 1
               /\ \A r \in rows :
                     /\ r.volume_at_sla =
                           VolumeOf({k \in DemandsOf(s) :
                                       IsDirectInjection(k) \/ HasFeasible(k)})
                     /\ r.volume_missed =
                           VolumeOf({k \in DemandsOf(s) :
                                       /\ ~IsDirectInjection(k)
                                       /\ TimingsFor(k) # {}
                                       /\ ~HasFeasible(k)})
                     /\ r.total_packages = VolumeOf(DemandsOf(s))
                     /\ r.volume_at_sla + r.volume_missed <= r.total_packages

\* a summary of a scenario with a direct injection demand whose OD has only
\* infeasible timings, a missed demand and a demand counted in neither volume
C19_Witness ==
    /\ report_pc = "reported"
    /\ \E r \in summary :
          /\ r.volume_missed > 0
          /\ r.volume_at_sla > 0
          /\ r.volume_at_sla + r.volume_missed < r.total_packages
          /\ \E k \in DemandsOf(r.scenario_id) :
                IsDirectInjection(k) /\ TimingsFor(k) # {} /\ ~HasFeasible(k)

\* ranking key of t1 <= ranking key of t2, the key being (tit_hours, number of
\* hops, total_path_miles)
RankLeq(t1, t2) ==
    LET tit1 == t1.tit_hours.num * t2.tit_hours.den
        tit2 == t2.tit_hours.num * t1.tit_hours.den
        hops1 == Len(t1.path.path_nodes) - 1
        hops2 == Len(t2.path.path_nodes) - 1
    IN \/ tit1 < tit2
       \/ /\ tit1 = tit2
          /\ \/ hops1 < hops2
             \/ hops1 = hops2 /\ t1.path.total_path_miles <= t2.path.total_path_miles

SortLevels == {SortLevel[i] : i \in 1..Len(SortLevel)}

\* the timings of a sort level among the timings of an OD
GroupOf(timings, level) == SelectSeq(timings, LAMBDA t : t.path.sort_level = level)

\* kept is a top-n pruning of group
PrunedTo(group, kept, n) ==
    /\ Len(kept) = (IF n < Len(group) THEN n ELSE Len(group))
    /\ \A i \in 1..Len(kept) : CountIn(kept[i], kept) <= CountIn(kept[i], group)
    /\ \A i \in 1..Len(kept) : \A j \in 1..Len(group) :
          CountIn(group[j], kept) < CountIn(group[j], group) => RankLeq(kept[i], group[j])

\* C20: the pruning keeps, for every (origin, dest, sort_level) group, exactly
\* min(N, group size) timings, all from the input group, each with a ranking
\* key <= the key of every dropped timing of the group, and it leaves the
\* input od_timings lists unchanged.
C20_TopNPruning ==
    [][(report_pc = "start" /\ report_pc' = "ready" /\ top_paths_per_sort_level > 0) =>
          /\ report_timings' = report_timings
          /\ Len(builder_timings') = Len(report_timings)
          /\ \A e \in 1..Len(report_timings) :
                /\ builder_timings'[e].od = report_timings[e].od
                /\ \A level \in SortLevels :
                      PrunedTo(GroupOf(report_timings[e].timings, level),
                               GroupOf(builder_timings'[e].timings, level),
                               top_paths_per_sort_level)]_vars

\* a pruned dict in which one sort level of an OD lost timings and another,
\* smaller than N, kept all of its timings
C20_Witness ==
    /\ report_pc = "ready"
    /\ top_paths_per_sort_level > 0
    /\ \E e \in 1..Len(report_timings) : \E l1, l2 \in SortLevels :
          /\ Len(GroupOf(report_timings[e].timings, l1)) > top_paths_per_sort_level
          /\ Len(GroupOf(builder_timings[e].timings, l1)) = top_paths_per_sort_level
          /\ Len(GroupOf(report_timings[e].timings, l2)) > 0
          /\ Len(GroupOf(report_timings[e].timings, l2)) < top_paths_per_sort_level
          /\ Len(GroupOf(builder_timings[e].timings, l2))
                = Len(GroupOf(report_timings[e].timings, l2))

\* the paths of an od_paths entry whose nodes are all in the facilities sheet
Computable(paths) ==
    SelectSeq(paths, LAMBDA p : \A i \in 1..Len(p.path_nodes) :
                                   p.path_nodes[i] \in DOMAIN facilities)

\* C21: when the timing of one path raises, only that path is omitted: the
\* returned dict has an entry for every OD of the input, holding the timings
\* of all the other paths of the OD in the order of the input list.
C21_PerPathErrorIsolation ==
    batch_pc = "returned" =>
        /\ Len(batch_timings) = Len(batch_paths)
        /\ \A e \in 1..Len(batch_paths) :
              /\ batch_timings[e].od = batch_paths[e].od
              /\ Len(batch_timings[e].timings) = Len(Computable(batch_paths[e].paths))
              /\ \A k \in 1..Len(batch_timings[e].timings) :
                    /\ batch_timings[e].timings[k].path = Computable(batch_paths[e].paths)[k]
                    /\ batch_timings[e].timings[k].steps # <<>>

\* a returned dict with an OD that lost a path between two others, an OD that
\* lost all its paths and an OD after them that lost none
C21_Witness ==
    /\ batch_pc = "returned"
    /\ \E e1, e2, e3 \in 1..Len(batch_paths) :
          /\ e1 < e3 /\ e2 < e3
          /\ Len(batch_timings[e1].timings) >= 2
          /\ Len(batch_timings[e1].timings) < Len(batch_paths[e1].paths)
          /\ batch_paths[e2].paths # <<>> /\ batch_timings[e2].timings = <<>>
          /\ batch_paths[e3].paths # <<>>
          /\ Len(batch_timings[e3].timings) = Len(batch_paths[e3].paths)

\* the processing steps of timing t at its intermediate node number i
ProcessingAt(t, i) ==
    {k \in 1..Len(t.steps) :
        /\ t.steps[k].from_facility = t.path.path_nodes[i]
        /\ t.steps[k].to_facility = t.path.path_nodes[i]
        /\ t.steps[k].step_type \in {FULL_SORT, CROSSDOCK}}

\* C23: at an intermediate node of a path the processing step is FULL_SORT,
\* lasting middle_mile_sort_minutes, exactly when the sort level of the path is
\* REGION and the node is the second-to-last one; in every other case it is
\* CROSSDOCK, lasting middle_mile_crossdock_minutes.
C23_IntermediateProcessingKind ==
    \A t \in Timings :
        \A i \in 2..(Len(t.path.path_nodes) - 1) :
            /\ ProcessingAt(t, i) # {}
            /\ \A k \in ProcessingAt(t, i) :
                  IF t.path.sort_level = REGION /\ i = Len(t.path.path_nodes) - 1
                  THEN /\ t.steps[k].step_type = FULL_SORT
                       /\ t.steps[k].duration_minutes = timing_params.middle_mile_sort_minutes
                  ELSE /\ t.steps[k].step_type = CROSSDOCK
                       /\ t.steps[k].duration_minutes
                             = timing_params.middle_mile_crossdock_minutes

\* C24: a LAST_MILE_SORT step is in the trace of a timing only if the sort
\* level of the path is MARKET and its destination is LAUNCH or HYBRID.
C24_LastMileSortOnlyForMarket ==
    \A t \in Timings :
        (\E k \in 1..Len(t.steps) : t.steps[k].step_type = LAST_MILE_SORT) =>
            /\ t.path.sort_level = MARKET
            /\ facilities[t.path.dest].facility_type \in {LAUNCH, HYBRID}

\* ServiceCommitment.matches
matches(sc, origin, dest, zone) ==
    /\ sc.origin = "*" \/ sc.origin = origin
    /\ sc.dest = "*" \/ sc.dest = dest
    /\ sc.zone = NoZone \/ sc.zone = zone

\* C29: whatever get_commitment(origin, dest, zone) returns matches the query:
\* its origin is '*' or the origin asked, its dest is '*' or the dest asked,
\* and its zone is unset or the zone asked.
C29_ReturnedCommitmentMatches ==
    (feas_pc = "looked_up" /\ commitment # NoCommitment) =>
        matches(commitment, commitment_query[1], commitment_query[2], commitment_query[3])

\* the local time of day of a UTC instant at the window of the call
AlignLocal(utc_dt) == utc_to_local(utc_dt, align_window.timezone)

\* the UTC instant at which the window instance that contains the local
\* instant s closes
WindowCloseUtc(s) ==
    local_to_utc(
        IF crosses_midnight(align_window)
              /\ time_to_minutes(TimeOf(s)) >= time_to_minutes(align_window.start_local)
        THEN Combine(DateOf(s) + 1, align_window.end_local)
        ELSE Combine(DateOf(s), align_window.end_local),
        align_window.timezone)

\* the first instant at or after t at which the window of the call opens
NextOpeningUtc(t) ==
    local_to_utc(
        IF time_to_minutes(TimeOf(AlignLocal(t))) <= time_to_minutes(align_window.start_local)
        THEN Combine(DateOf(AlignLocal(t)), align_window.start_local)
        ELSE Combine(DateOf(AlignLocal(t)) + 1, align_window.start_local),
        align_window.timezone)

\* C27: align_to_window_end returns a start inside the window with
\* start + processing_minutes <= target, the end of processing no later than
\* the close of the window instance that contains the start, and a dwell equal
\* to target - (start + processing_minutes) that is not negative.
C27_AlignToWindowEnd ==
    align_pc = "aligned_back" =>
        /\ is_time_in_window(TimeOf(AlignLocal(align_start)), align_window)
        /\ align_start + align_processing <= align_instant
        /\ align_start + align_processing <= WindowCloseUtc(AlignLocal(align_start))
        /\ align_dwell = align_instant - (align_start + align_processing)
        /\ align_dwell >= 0

\* C28: next_window_start_utc returns the instant given when its local time is
\* inside the window and otherwise the next instant at which the window opens;
\* the result is never before the instant given and less than 24 hours after.
C28_NextWindowStart ==
    align_pc = "aligned_forward" =>
        /\ align_start =
              IF is_time_in_window(TimeOf(AlignLocal(align_instant)), align_window)
              THEN align_instant
              ELSE NextOpeningUtc(align_instant)
        /\ align_start >= align_instant
        /\ align_start < align_instant + MINUTES_PER_DAY

\* date.strftime("%a"); date 0, the reference date, is a Monday
DayNames == <<"Mon", "Tue", "Wed", "Thu", "Fri", "Sat", "Sun">>
day_name(date) == DayNames[(date % 7) + 1]

\* the CPT occurs at the UTC instant departure_utc, whatever its mask
OccursAt(cpt, departure_utc) ==
    TimeOf(utc_to_local(departure_utc, cpt.timezone)) = cpt.cpt_local

\* the mask of the CPT allows the local day of the UTC instant departure_utc
MaskAllows(cpt, departure_utc) ==
    \/ cpt.days_of_week = <<>>
    \/ \E d \in 1..Len(cpt.days_of_week) :
           cpt.days_of_week[d] = day_name(DateOf(utc_to_local(departure_utc, cpt.timezone)))

\* the CPTs of the arc of a step
CptsOfStep(step) ==
    get_cpts_for_arc(facilities, ArcCpts, step.from_facility, step.to_facility)

\* the transit step departs at an occurrence of a CPT of its arc
DepartsAtCpt(step) ==
    /\ step.step_type = TRANSIT
    /\ \E k \in 1..Len(CptsOfStep(step)) : OccursAt(CptsOfStep(step)[k], step.start_utc)

\* C26: every CPT departure chosen for a TRANSIT step falls, in the local time
\* of the origin, on a weekday that the mask of that CPT lists; an empty mask
\* allows every day.
C26_DayOfWeekMasks ==
    \A t \in Timings :
        \A step \in StepsOf(t) :
            DepartsAtCpt(step) =>
                \E k \in 1..Len(CptsOfStep(step)) :
                    /\ OccursAt(CptsOfStep(step)[k], step.start_utc)
                    /\ MaskAllows(CptsOfStep(step)[k], step.start_utc)

\* the occurrences of the CPTs of the call over the days the lookup searches,
\* reference date - 5 .. reference date, that are at or before the instant
OccurrencesBefore(cpts, required_by_utc) ==
    {c \in {cpt_utc_on(cpts[k], 0 - back) : k \in 1..Len(cpts), back \in 0..5} :
        c <= required_by_utc}

\* C25: for an arc with CPTs and a required departure instant t the backward
\* lookup returns the latest CPT occurrence at or before t over all CPTs of the
\* arc and all searched days, with dwell = t - that occurrence >= 0.
C25_LatestCptSelection ==
    (/\ lookup_pc = "found"
     /\ lookup_cpts # <<>>
     /\ OccurrencesBefore(lookup_cpts, lookup_required) # {}) =>
        /\ lookup_departure = SetMax(OccurrencesBefore(lookup_cpts, lookup_required))
        /\ lookup_dwell = lookup_required - lookup_departure
        /\ lookup_dwell >= 0

\* the fields of a PathTimingResult that are not SLA fields
NonSlaFields(t) ==
    <<t.path, t.steps, t.tit_hours, t.sort_window_dwell_hours, t.cpt_dwell_hours,
      t.total_dwell_hours, t.required_injection_utc, t.delivery_datetime_utc>>

\* every timing of the table is, field for field, a timing that the feasibility
\* stage left for the same OD
TakenFromChecked(table, checked) ==
    \A e \in 1..Len(table) :
        \A k \in 1..Len(table[e].timings) :
            \E c \in 1..Len(checked) :
                /\ checked[c].od = table[e].od
                /\ \E j \in 1..Len(checked[c].timings) :
                       checked[c].timings[j] = table[e].timings[k]

\* C22: the feasibility stage changes SLA fields only (path, steps, tit_hours,
\* the three dwell-hour fields, required_injection_utc and
\* delivery_datetime_utc of every timing stay as they were), and the pruning
\* and the report building that follow change no field of any timing.
C22_FeasibilityOnlyMutator ==
    [][/\ Len(checked_timings') = Len(checked_timings)
       /\ \A e \in 1..Len(checked_timings) :
             /\ checked_timings'[e].od = checked_timings[e].od
             /\ Len(checked_timings'[e].timings) = Len(checked_timings[e].timings)
             /\ \A k \in 1..Len(checked_timings[e].timings) :
                   NonSlaFields(checked_timings'[e].timings[k])
                       = NonSlaFields(checked_timings[e].timings[k])
       /\ report_pc # "waiting" => checked_timings' = checked_timings
       /\ TakenFromChecked(report_timings', checked_timings')
       /\ TakenFromChecked(builder_timings', checked_timings')]_vars

\* a run that annotated the timings of an OD, some met and some missed, pruned
\* some of them away and built its reports on timings that carry their trace
C22_Witness ==
    /\ detail_pc = "built"
    /\ feas_runs = 1
    /\ total_paths(builder_timings) > 0
    /\ total_paths(builder_timings) < total_paths(checked_timings)
    /\ \E e \in 1..Len(checked_timings) :
          /\ \E k \in 1..Len(checked_timings[e].timings) :
                /\ checked_timings[e].timings[k].sla_met
                /\ checked_timings[e].timings[k].sla_days > 0
          /\ \E k \in 1..Len(checked_timings[e].timings) :
                ~checked_timings[e].timings[k].sla_met
    /\ \E e \in 1..Len(builder_timings) :
          \E k \in 1..Len(builder_timings[e].timings) :
              Len(builder_timings[e].timings[k].steps) >= 4

\* the timings of a table entry as a set
TimingSet(entry) == {entry.timings[k] : k \in 1..Len(entry.timings)}

\* the timings of the entry that are minimal under the ranking key
MinimalOf(entry) == {t \in TimingSet(entry) : \A u \in TimingSet(entry) : RankLeq(t, u)}

\* the demand has a row in sla_miss_detail
InMissDetail(demand) ==
    \E row \in sla_miss_detail :
        /\ row.scenario_id = demand.scenario_id
        /\ row.origin = demand.origin
        /\ row.dest = demand.dest

\* the summary loop counts the volume of the demand as missed
CountedMissed(demand) ==
    count_demand(demand, builder_timings, NoCounts).volume_missed = demand.pkgs_day

\* C30: after check_all_feasibility the timing of an OD that is minimal under
\* the ranking key has sla_met exactly when some timing of the OD has it; so a
\* demand has a row in sla_miss_detail exactly when the summary counts its
\* volume as missed, and the best timing over the feasible timings of an OD
\* has the TIT of the best timing over all of them.
C30_BestTimingDecidesSla ==
    /\ feas_pc = "returned" =>
          \A e \in 1..Len(checked_timings) :
              \A t \in MinimalOf(checked_timings[e]) :
                  t.sla_met <=> \E u \in TimingSet(checked_timings[e]) : u.sla_met
    /\ detail_pc = "built" =>
          /\ \A k \in 1..Len(report_demands) :
                InMissDetail(report_demands[k]) <=> CountedMissed(report_demands[k])
          /\ \A e \in 1..Len(builder_timings) :
                SelectSeq(builder_timings[e].timings, LAMBDA t : t.sla_met) # <<>> =>
                    best_of(SelectSeq(builder_timings[e].timings,
                                      LAMBDA t : t.sla_met)).tit_hours
                        = best_of(builder_timings[e].timings).tit_hours

\* reports built on an OD whose best timing meets its SLA while another of its
\* timings misses it, next to an OD that is in sla_miss_detail
C30_Witness ==
    /\ detail_pc = "built"
    /\ \E e \in 1..Len(builder_timings) :
          /\ \E t \in MinimalOf(builder_timings[e]) : t.sla_met
          /\ \E u \in TimingSet(builder_timings[e]) : ~u.sla_met
          /\ \E k \in 1..Len(report_demands) :
                /\ report_demands[k].origin = builder_timings[e].od[1]
                /\ report_demands[k].dest = builder_timings[e].od[2]
                /\ ~InMissDetail(report_demands[k])
    /\ \E k \in 1..Len(report_demands) :
          InMissDetail(report_demands[k]) /\ CountedMissed(report_demands[k])

=============================================================================
